---- MODULE Spec2Model ----
(***************************************************************************)
(* Multi-agent review orchestration of agenteer-review.                    *)
(*                                                                         *)
(* Four orchestrator classes are modelled, selected by `impl`:             *)
(*   "core"      core/orchestrator.py        Orchestrator.process_paper    *)
(*   "simple"    src/core/orchestrator.py    Orchestrator.run              *)
(*   "iterative" src/core/orchestrator.py    IterativeOrchestrator.run     *)
(*   "checked"   src/core/orchestrator.py    CheckedOrchestrator.run       *)
(* A behaviour of Spec is one orchestrator instance and one run on it.      *)
(* Steps are taken at the suspension points of the coroutines: the awaited *)
(* gather, and each LLM request/response.                                  *)
(*                                                                         *)
(* A behaviour of SpecRefine is one call of refine_agents, made directly   *)
(* on an IterativeOrchestrator or a CheckedOrchestrator.                   *)
(*                                                                         *)
(* A behaviour of SpecStrip is remove_think_blocks applied to a text and    *)
(* then to its own result.                                                 *)
(*                                                                         *)
(* A behaviour of SpecConc is two runs on one orchestrator instance, as     *)
(* two requests served by one event loop interleave them; agent outputs    *)
(* are kept as texts and prompts as the lists of what they hold.           *)
(***************************************************************************)
EXTENDS Integers, Sequences, FiniteSets, TLC

\* ------------------------------------------------------------------ bounds
MaxAgents == 2
MaxIterations == 1
MaxTextLen == 5
MaxLength == 5
MaxUploads == 2

\* config.MAX_FILE_SIZE, and the limit written in bot_service_handlers.py.
MaxFileSize == 10485760
ServiceMaxFileSize == 20971520

\* ------------------------------------------------------------ input domains
Impls == {"core", "simple", "iterative", "checked"}

Names == {"StructureAgent", "SummaryAgent", "CitationAgent"}

\* Paper texts as character sequences: empty, whitespace-only, and a real one.
Papers == {<< >>, <<" ">>, <<"x">>}

\* Raw completions as token sequences ("x" stands for any other text).
SynthContents == {<< >>, <<"x">>, <<"<think>", "x", "</think>", "x">>}

\* Raw consistency-check completions: nothing, a reasoning trace only, the
\* empty JSON list, a list with one {agent, message} object, and plain text
\* that is no JSON at all.
CheckContents ==
    {<< >>, <<"<think>", "x", "</think>", " ">>, <<"[", "]">>, <<"[", "x", "]">>,
     <<"x">>}

\* Value of the local `clarifications` before the first check has answered.
Unset == <<"unset">>

\* Ways an LLM request ends in failure: connection failure, non-2xx status,
\* body without choices[0].message.content, client timeout.
CallFailures == {"conn", "http", "proto", "timeout"}

VARIABLES
    impl,         \* which orchestrator class the instance is
    maxIter,      \* IterativeOrchestrator.max_iterations
    agents,       \* registered agents' names, in registration order
    paper,        \* the text the run was started with
    pc,           \* position of the run: idle, agents, check, synth, done, raised
    task,         \* per agent (by position): state of its call
    resultCount,  \* per agent (by position): results its call has produced
    results,      \* agent_results / agents_responses: name -> "ok" | "error"
    fanout,       \* the fan-out executor: none, running, returned, raised
    netCalls,     \* LLM requests issued so far
    checkCalls,   \* consistency-check requests issued
    iteration,    \* iterations of the check/refine loop entered
    synthCalls,   \* synthesis requests issued
    synthInput,   \* the mapping synthesis was entered with
    synthResult,  \* how the synthesis request ended: none, ok, or the failure
    review,       \* final review text (token sequence)
    status,       \* processing_status of the returned result, or "none"
    exc,          \* the exception that left run(), or "none"
    deadline,     \* a batch deadline for the fan-out has elapsed
    pendingAtDeadline,  \* positions whose call was in flight at that moment
    clarifications,     \* run()'s local: the last check_and_ask return value
    refineCalls,  \* calls of refine_agents made by run()
    completion,   \* the raw completion the synthesis request answered with
    session,      \* per agent (by position): its call's ClientSession
    checkSession, \* the ClientSession of the consistency-check call
    synthSession, \* the ClientSession of the synthesis call
    requests,     \* per agent (by position): requests its call has sent
    raisedAs,     \* per agent (by position): exception type its call raised
    \* ---- one direct call of refine_agents (SpecRefine)
    rCls,         \* class of the instance: "iterative" or "checked"
    rAgents,      \* self.agents: names, in list order
    rPrompt,      \* per agent (by position): the notes appended to its prompt
    clarification,  \* the argument of refine_agents
    old_prompts,  \* the snapshot refine_agents takes on entry
    rPc,          \* idle, rerun (gather awaited), returned, raised
    rExc,         \* the exception that left refine_agents, or "none"
    rTask,        \* per agent (by position): state of its re-run call
    rSent,        \* per agent (by position): the prompt its re-run request held
    rOut,         \* the mapping refine_agents returned
    \* ---- two runs on one instance (SpecConc)
    cImpl,        \* class of the shared instance: core, simple or iterative
    cMaxIter,     \* its max_iterations
    cAgents,      \* its agents' names, in registration order
    agents_responses,  \* the instance field self.agents_responses
    cPrompt,      \* per agent (by position): the notes appended to its prompt
    cPc,          \* per run: idle, agents, check, synth, done, raised
    cTask,        \* per run, per agent: none, inflight, the output, or "fail"
    cOrder,       \* per run: positions in the order their calls finished
    cSent,        \* per run, per agent: the prompt its request held
    cCheckPrompt, \* per run: the agent entries of its consistency-check prompt
    cSynthPrompt, \* per run: the agent entries of its synthesis prompt
    cRefined,     \* per run: it has called refine_agents
    cAfterRefine, \* per run: it started after another run called refine_agents
    \* ---- remove_think_blocks on its own (SpecStrip)
    inputText,    \* the argument of remove_think_blocks
    stripped,     \* remove_think_blocks(inputText)
    restripped,   \* remove_think_blocks(remove_think_blocks(inputText))
    stripPc       \* input, once, twice

clockVars == <<deadline, pendingAtDeadline>>

loopVars == <<clarifications, refineCalls>>

callVars == <<completion, session, checkSession, synthSession, requests,
              raisedAs>>

VARIABLES
    registry,     \* Orchestrator.agents of src/core: name -> agent object
    lastReg       \* the arguments of the latest register_agent call

regVars == <<registry, lastReg>>

mainVars == <<impl, maxIter, agents, paper, pc, task, resultCount, results,
              fanout, netCalls, checkCalls, iteration, synthCalls, synthInput,
              synthResult, review, status, exc, clockVars, loopVars, callVars,
              regVars>>

refineVars == <<rCls, rAgents, rPrompt, clarification, old_prompts, rPc, rExc,
                rTask, rSent, rOut>>

concVars == <<cImpl, cMaxIter, cAgents, agents_responses, cPrompt, cPc, cTask,
              cOrder, cSent, cCheckPrompt, cSynthPrompt, cRefined, cAfterRefine>>

stripVars == <<inputText, stripped, restripped, stripPc>>

VARIABLES
    \* ---- truncate_text on its own (SpecTrunc)
    truncText,    \* the argument text
    max_length,   \* the argument max_length
    truncated,    \* truncate_text(truncText, max_length)
    truncPc       \* input, done

truncVars == <<truncText, max_length, truncated, truncPc>>

VARIABLES
    \* ---- format_review on its own (SpecFormat)
    fmtCall,      \* how the call is written: its arguments
    fmtResults,   \* the argument results
    formatted,    \* what the call ended with
    fmtPc         \* input, done

fmtVars == <<fmtCall, fmtResults, formatted, fmtPc>>

VARIABLES
    \* ---- one user of a bot, or the /extract-pdf endpoint (SpecBot)
    bot,          \* which program serves the user
    fsmState,     \* the user's dialogue state (FSMContext)
    active_tasks, \* active_tasks[user]: the document whose task it holds, or 0
    docFile,      \* per document: file name and size
    dpc,          \* per document: position of its handler / task
    cancelReq,    \* per document: task.cancel() called, not yet delivered
    tmp,          \* per document: its temporary file: none, ondisk, deleted
    published,    \* per document: its review was shown to the user
    extracted,    \* per document: text extraction was reached
    reviewed,     \* per document: the orchestrator / review service was reached
    stateOwner,   \* the document whose handler set fsmState to processing, or 0
    cancelSeen    \* per document: /cancel was issued while it was processed

botVars == <<bot, fsmState, active_tasks, docFile, dpc, cancelReq, tmp,
             published, extracted, reviewed, stateOwner, cancelSeen>>

\* The state of the presentation layer and of the utilities.
sideVars == <<truncVars, fmtVars, botVars>>

\* The state of the orchestrators.
coreVars == <<mainVars, refineVars, concVars, stripVars>>

vars == <<coreVars, sideVars>>

\* ----------------------------------------------------------------- helpers
Range(s) == {s[i] : i \in 1..Len(s)}

IsBlank(text) == \A i \in 1..Len(text) : text[i] = " "

NoMapping == [n \in {} |-> "ok"]

\* The agent objects handed to register_agent.
AgentIds == {"a1", "a2"}

\* No register_agent call yet.
NoReg == [name |-> "none", agent |-> "none"]

\* All sequences over S of length at most n.
SeqsUpTo(S, n) == UNION {[1..k -> S] : k \in 0..n}

\* str.strip() on a token sequence.
RECURSIVE StripLeft(_)
StripLeft(s) ==
    IF s # << >> /\ Head(s) = " " THEN StripLeft(Tail(s)) ELSE s

RECURSIVE StripRight(_)
StripRight(s) ==
    IF s # << >> /\ s[Len(s)] = " " THEN StripRight(SubSeq(s, 1, Len(s) - 1)) ELSE s

\* A strip that leaves trailing blanks.
StripLeftOnly(s) == StripLeft(s)

Strip(s) == StripRight(StripLeft(s))

\* re.sub(r'<think>.*?</think>', '', text, flags=re.DOTALL): scanning from the
\* left, an opening marker is removed together with everything up to and
\* including the first closing marker after it; an opening marker with no
\* closing marker after it stays.
RECURSIVE SubThink(_)
SubThink(s) ==
    IF s = << >> THEN << >>
    ELSE IF Head(s) = "<think>"
              /\ \E j \in 2..Len(s) : s[j] = "</think>"
         THEN LET j == CHOOSE k \in 2..Len(s) :
                           /\ s[k] = "</think>"
                           /\ \A m \in 2..(k - 1) : s[m] # "</think>"
              IN SubThink(SubSeq(s, j + 1, Len(s)))
         ELSE <<Head(s)>> \o SubThink(Tail(s))

\* A text is a sequence of pieces: a whole marker, a fragment of a marker
\* ("<thi", "</thi", "nk>"), a blank, or other text "x".  Two fragments that
\* stand next to each other in a str are a marker of that str: Canon gives the
\* one sequence in which every marker of the str is a single piece.
RECURSIVE Canon(_)
Canon(s) ==
    IF Len(s) < 2 THEN s
    ELSE IF s[1] = "<thi" /\ s[2] = "nk>"
         THEN <<"<think>">> \o Canon(SubSeq(s, 3, Len(s)))
    ELSE IF s[1] = "</thi" /\ s[2] = "nk>"
         THEN <<"</think>">> \o Canon(SubSeq(s, 3, Len(s)))
    ELSE <<s[1]>> \o Canon(Tail(s))

\* One pass of re.sub over the str t, the unmatched parts joined into one
\* str, then str.strip().
remove_think_blocks(t) == Canon(Strip(SubThink(Canon(t))))

\* ------------------------------------------------------- the orchestrators

\* A gather that propagates the first exception in every orchestrator.
GatherPropagates(im) == FALSE

\* asyncio.gather(*tasks, return_exceptions=True) in core/orchestrator.py;
\* asyncio.gather(*tasks.values()) in src/core/orchestrator.py.
ReturnExceptions(im) == im = "core"

\* The call of agents[i] is among the awaited ones.  A registry dict has one
\* entry per name; in {agent.name: agent.run(paper) for agent in self.agents}
\* a later agent of the same name replaces the earlier agent's coroutine.
Awaited(ags, i) == \A j \in (i + 1)..Len(ags) : ags[j] # ags[i]

\* Position of the agent whose call is stored under name n.
TaskOf(ags, n) == CHOOSE i \in 1..Len(ags) : ags[i] = n /\ Awaited(ags, i)

\* StructureAgent.analyze is local pattern matching; SummaryAgent.analyze and
\* BaseAgent.run send one chat request.
UsesLLM(im, n) == im # "core" \/ n # "StructureAgent"

\* How one agent call can end.  StructureAgent and SummaryAgent catch every
\* exception and return a dict carrying "error"; any other BaseAgent subclass
\* may also raise.  BaseAgent.run (src/core) catches nothing.
AgentOutcomes(im, n) ==
    IF im = "core"
    THEN IF n \in {"StructureAgent", "SummaryAgent"}
         THEN {"ok", "errdict"}
         ELSE {"ok", "errdict", "raise"}
    ELSE {"ok"} \cup CallFailures

Raised(t) == t \in {"raise"} \cup CallFailures

Failed(t) == Raised(t) \/ t = "errdict"

\* isinstance(result, Exception) -> {"error": str(result)}; a returned dict
\* is stored as it is, and holds "error" when the agent caught its failure.
Entry(t) == IF t = "ok" THEN "ok" ELSE "error"

\* zip(agent_names, results) / dict(zip(tasks.keys(), responses))
BuildResults(ags, tk) == [n \in Range(ags) |-> Entry(tk[TaskOf(ags, n)])]

\* A wait that is over as soon as one call has finished.
FirstSettled(tk) == \E i \in 1..Len(tk) : tk[i] # "inflight"

\* await asyncio.gather(...): every awaited call has finished.
AllSettled(tk) == \A i \in 1..Len(tk) : tk[i] # "inflight"

SomeRaised(tk) == \E i \in 1..Len(tk) : Raised(tk[i])

\* Orchestrator._generate_fallback_review: the sections of the review.
GenerateFallbackReview(r) ==
    <<"header">>
    \o (IF "StructureAgent" \in DOMAIN r /\ r["StructureAgent"] # "error"
        THEN <<"structure">> ELSE << >>)
    \o (IF "SummaryAgent" \in DOMAIN r /\ r["SummaryAgent"] # "error"
        THEN <<"content">> ELSE << >>)
    \o <<"conclusions">>

\* IterativeOrchestrator.refine_agents called with the str check_and_ask
\* returns: iterating a non-empty str yields characters, and agent.name on a
\* character raises AttributeError before any prompt is changed; on an empty
\* str the second loop indexes the str by agent.name (TypeError).
refine_agents(clar, ags) ==
    IF Len(clar) > 0 THEN "AttributeError"
    ELSE IF Len(ags) > 0 THEN "TypeError"
    ELSE "returned"

\* BaseAgent.run and the run() orchestrators open an aiohttp.ClientSession
\* for every call; core/orchestrator.py and its agents send through the
\* ollama.AsyncClient made in __init__.
OpensSession(im) == im # "core"

\* A session that is closed by a statement after the request, which a
\* cancelled call does not reach.
LeakOnCancel(how) == IF how = "cancelled" THEN "open" ELSE "closed"

\* `async with aiohttp.ClientSession(...) as session:` closes the session
\* however the block is left: return, exception or cancellation.
SessionOnExit(how) == "closed"

\* A call that sends its request a second time when the first failed.
RetryOnce(o) == IF o \in CallFailures THEN 1 ELSE 0

\* Requests a call sends after the one it starts with: BaseAgent.run has no
\* loop and no handler around session.post.
Retries(o) == 0

\* The exception type a call ends with.  BaseAgent.run never looks at the
\* HTTP status: response.json() raises ContentTypeError for a body that is
\* not JSON, and data['choices'][0]['message']['content'] raises KeyError for
\* JSON without that field, whatever the status was.
SurfacedAs(o) ==
    CASE o = "conn" -> {"ClientConnectorError"}
      [] o = "http" -> {"KeyError", "ContentTypeError"}
      [] o = "proto" -> {"KeyError", "ContentTypeError"}
      [] o = "timeout" -> {"TimeoutError"}
      [] o = "raise" -> {"Exception"}
      [] OTHER -> {"none"}

\* IterativeOrchestrator.run and CheckedOrchestrator.run hold the
\* check/refine loop.
HasLoop(im) == im \in {"iterative", "checked"}

\* IterativeOrchestrator.__init__ sets self.review_prompt, which check_and_ask
\* reads; CheckedOrchestrator.__init__ does not set it.
HasReviewPrompt(im) == im # "checked"

\* A loop whose body runs once before the bound is looked at.
LoopAtLeastOnce(it, mx) == it < mx \/ it = 0

\* for i in range(self.max_iterations): the body is entered while fewer than
\* max_iterations iterations have been entered.
LoopContinues(it, mx) == it < mx

\* No direct call of refine_agents takes place.
RefineIdle ==
    /\ rCls = "iterative"
    /\ rAgents = << >>
    /\ rPrompt = << >>
    /\ clarification = [kind |-> "str", val |-> << >>]
    /\ old_prompts = << >>
    /\ rPc = "idle"
    /\ rExc = "none"
    /\ rTask = << >>
    /\ rSent = << >>
    /\ rOut = NoMapping

\* remove_think_blocks is not being applied on its own.
StripIdle ==
    /\ inputText = << >>
    /\ stripped = Unset
    /\ restripped = Unset
    /\ stripPc = "input"

\* truncate_text is not being applied.
TruncIdle ==
    /\ truncText = << >>
    /\ max_length = 0
    /\ truncated = Unset
    /\ truncPc = "input"

\* A results argument that is no dict.
NotADict ==
    [isDict |-> FALSE, status |-> "none", error |-> "none",
     agent_results |-> NoMapping, final_review |-> FALSE]

\* No call of format_review has ended.
NotFormatted ==
    [raised |-> FALSE, kind |-> "none", detail |-> "none", inline |-> {},
     analyses |-> {}, review |-> FALSE]

\* format_review is not being applied.
FormatIdle ==
    /\ fmtCall = "results"
    /\ fmtResults = NotADict
    /\ formatted = NotFormatted
    /\ fmtPc = "input"

\* The documents a user sends, in the order sent.
Docs == 1..MaxUploads

\* No file.
NoFile == [name |-> << >>, size |-> 0]

\* No bot is serving anyone.
BotIdle ==
    /\ bot = "bot"
    /\ fsmState = "none"
    /\ active_tasks = 0
    /\ docFile = [k \in Docs |-> NoFile]
    /\ dpc = [k \in Docs |-> "none"]
    /\ cancelReq = [k \in Docs |-> FALSE]
    /\ tmp = [k \in Docs |-> "none"]
    /\ published = [k \in Docs |-> FALSE]
    /\ extracted = [k \in Docs |-> FALSE]
    /\ reviewed = [k \in Docs |-> FALSE]
    /\ stateOwner = 0
    /\ cancelSeen = [k \in Docs |-> FALSE]

\* Nothing outside the orchestrators is running.
SideIdle == TruncIdle /\ FormatIdle /\ BotIdle

\* The requests that run concurrently.
Runs == {"r1", "r2"}

\* No concurrent runs take place.
ConcIdle ==
    /\ cImpl = "core"
    /\ cMaxIter = 0
    /\ cAgents = << >>
    /\ agents_responses = NoMapping
    /\ cPrompt = << >>
    /\ cPc = [r \in Runs |-> "idle"]
    /\ cTask = [r \in Runs |-> << >>]
    /\ cOrder = [r \in Runs |-> << >>]
    /\ cSent = [r \in Runs |-> << >>]
    /\ cCheckPrompt = [r \in Runs |-> << >>]
    /\ cSynthPrompt = [r \in Runs |-> << >>]
    /\ cRefined = [r \in Runs |-> FALSE]
    /\ cAfterRefine = [r \in Runs |-> FALSE]

Init ==
    /\ impl \in Impls
    /\ maxIter \in 0..MaxIterations
    /\ ~HasLoop(impl) => maxIter = 0
    /\ agents \in SeqsUpTo(Names, MaxAgents)
    /\ impl = "core" => agents = << >>
    /\ paper = << >>
    /\ pc = "idle"
    /\ task = << >>
    /\ resultCount = << >>
    /\ results = NoMapping
    /\ fanout = "none"
    /\ netCalls = 0
    /\ checkCalls = 0
    /\ iteration = 0
    /\ synthCalls = 0
    /\ synthInput = NoMapping
    /\ synthResult = "none"
    /\ review = << >>
    /\ status = "none"
    /\ exc = "none"
    /\ deadline = FALSE
    /\ pendingAtDeadline = {}
    /\ clarifications = Unset
    /\ refineCalls = 0
    /\ completion = Unset
    /\ session = << >>
    /\ checkSession = "none"
    /\ synthSession = "none"
    /\ requests = << >>
    /\ raisedAs = << >>
    /\ registry = NoMapping
    /\ lastReg = NoReg
    /\ RefineIdle
    /\ ConcIdle
    /\ StripIdle
    /\ SideIdle

\* A registration that keeps the agent a name already has.
RegistryKeepFirst(reg, n, a) ==
    IF n \in DOMAIN reg
    THEN reg
    ELSE [m \in DOMAIN reg \cup {n} |-> IF m = n THEN a ELSE reg[m]]

\* self.agents[name] = agent on a dict.
RegistryPut(reg, n, a) ==
    [m \in DOMAIN reg \cup {n} |-> IF m = n THEN a ELSE reg[m]]

\* Orchestrator.register_agent: self.agents[name] = agent.  A dict keeps a
\* key at the position of its first insertion.
RegisterAgent(n, a) ==
    /\ impl = "core"
    /\ pc = "idle"
    /\ n \in Range(agents) \/ Len(agents) < MaxAgents
    /\ registry' = RegistryPut(registry, n, a)
    /\ lastReg' = [name |-> n, agent |-> a]
    /\ agents' = IF n \in DOMAIN registry THEN agents ELSE Append(agents, n)
    /\ UNCHANGED <<synthResult, impl, maxIter, paper, pc, task, resultCount, results, fanout,
                   netCalls, checkCalls, iteration, synthCalls, synthInput,
                   review, status, exc>>
    /\ UNCHANGED <<clockVars, loopVars, refineVars, concVars, stripVars, sideVars>>
    /\ UNCHANGED callVars

\* process_paper / run up to the awaited gather: one call per awaited agent
\* is started, and each LLM-backed call sends its request.
Run(p) ==
    /\ pc = "idle"
    /\ paper' = p
    /\ pc' = "agents"
    /\ fanout' = "running"
    /\ task' = [i \in 1..Len(agents) |->
                    IF Awaited(agents, i) THEN "inflight" ELSE "unawaited"]
    /\ resultCount' = [i \in 1..Len(agents) |-> 0]
    /\ netCalls' = netCalls + Cardinality({i \in 1..Len(agents) :
                        Awaited(agents, i) /\ UsesLLM(impl, agents[i])})
    /\ UNCHANGED <<synthResult, impl, maxIter, agents, results, checkCalls, iteration,
                   synthCalls, synthInput, review, status, exc>>
    /\ UNCHANGED <<clockVars, loopVars, refineVars, concVars, stripVars, regVars, sideVars>>
    /\ session' = [i \in 1..Len(agents) |->
                       IF Awaited(agents, i) /\ OpensSession(impl)
                       THEN "open" ELSE "none"]
    /\ requests' = [i \in 1..Len(agents) |->
                        IF Awaited(agents, i) /\ UsesLLM(impl, agents[i])
                        THEN 1 ELSE 0]
    /\ raisedAs' = [i \in 1..Len(agents) |-> "none"]
    /\ UNCHANGED <<completion, checkSession, synthSession>>

\* One agent call ends with outcome o.  Calls are tasks of their own: they
\* finish whether or not run() is still waiting for them.
AgentComplete(i, o) ==
    /\ i \in 1..Len(task)
    /\ task[i] = "inflight"
    /\ o \in AgentOutcomes(impl, agents[i])
    /\ task' = [task EXCEPT ![i] = o]
    /\ resultCount' = [resultCount EXCEPT ![i] = @ + 1]
    /\ UNCHANGED <<synthResult, impl, maxIter, agents, paper, pc, results, fanout, netCalls,
                   checkCalls, iteration, synthCalls, synthInput, review,
                   status, exc>>
    /\ UNCHANGED <<clockVars, loopVars, refineVars, concVars, stripVars, regVars, sideVars>>
    /\ session' = [session EXCEPT
                       ![i] = IF @ = "open" THEN SessionOnExit(o) ELSE @]
    /\ requests' = [requests EXCEPT ![i] = @ + Retries(o)]
    /\ \E e \in SurfacedAs(o) : raisedAs' = [raisedAs EXCEPT ![i] = e]
    /\ UNCHANGED <<completion, checkSession, synthSession>>

\* The synthesis request is sent for mapping r.
SynthStart(r) ==
    /\ synthInput' = r
    /\ synthCalls' = synthCalls + 1
    /\ synthSession' = IF OpensSession(impl) THEN "open" ELSE "none"
    /\ pc' = "synth"

\* check_and_ask sends the consistency-check request.
CheckStart ==
    /\ checkCalls' = checkCalls + 1
    /\ iteration' = iteration + 1
    /\ checkSession' = "open"
    /\ pc' = "check"

\* gather without return_exceptions re-raises the first exception of a call.
\* process_paper catches it and returns an error result; run() does not.
GatherRaise ==
    /\ pc = "agents"
    /\ ~ReturnExceptions(impl)
    /\ \E i \in 1..Len(task) :
          /\ Raised(task[i])
          /\ exc' = IF impl = "core" THEN "none" ELSE task[i]
    /\ fanout' = "raised"
    /\ IF impl = "core"
       THEN /\ results' = NoMapping
            /\ review' = <<"errmsg">>
            /\ status' = "error"
            /\ pc' = "done"
       ELSE /\ pc' = "raised"
            /\ UNCHANGED <<results, review, status>>
    /\ UNCHANGED <<synthResult, impl, maxIter, agents, paper, task, resultCount, netCalls,
                   checkCalls, iteration, synthCalls, synthInput>>
    /\ UNCHANGED <<clockVars, loopVars, refineVars, concVars, stripVars, regVars, sideVars>>
    /\ UNCHANGED callVars

\* gather returns; the mapping is built; the run goes on to its next step:
\* the first iteration of the check/refine loop, or synthesis.  check_and_ask
\* of CheckedOrchestrator raises AttributeError while it builds the payload.
GatherReturn ==
    /\ pc = "agents"
    /\ AllSettled(task)
    /\ ReturnExceptions(impl) \/ ~SomeRaised(task)
    /\ results' = BuildResults(agents, task)
    /\ fanout' = "returned"
    /\ IF HasLoop(impl) /\ LoopContinues(iteration, maxIter)
       THEN IF HasReviewPrompt(impl)
            THEN /\ CheckStart
                 /\ netCalls' = netCalls + 1
                 /\ UNCHANGED <<synthCalls, synthInput, exc, synthSession>>
            ELSE /\ iteration' = iteration + 1
                 /\ pc' = "raised"
                 /\ exc' = "AttributeError"
                 /\ checkSession' = SessionOnExit("AttributeError")
                 /\ UNCHANGED <<netCalls, checkCalls, synthCalls, synthInput,
                                synthSession>>
       ELSE /\ SynthStart(results')
            /\ netCalls' = netCalls + 1
            /\ UNCHANGED <<checkCalls, iteration, exc, checkSession>>
    /\ UNCHANGED <<synthResult, impl, maxIter, agents, paper, task, resultCount, review,
                   status>>
    /\ UNCHANGED <<clockVars, loopVars, refineVars, concVars, stripVars, regVars, sideVars>>
    /\ UNCHANGED <<completion, session, requests, raisedAs>>

\* Time passes while the fan-out is awaited: a deadline for the whole batch
\* elapses with some call still in flight.  `await asyncio.gather(...)` has no
\* timeout, so nothing in the orchestrator reacts.
DeadlineElapses ==
    /\ pc = "agents"
    /\ ~deadline
    /\ \E i \in 1..Len(task) : task[i] = "inflight"
    /\ deadline' = TRUE
    /\ pendingAtDeadline' = {i \in 1..Len(task) : task[i] = "inflight"}
    /\ UNCHANGED <<impl, maxIter, agents, paper, pc, task, resultCount, results,
                   fanout, netCalls, checkCalls, iteration, synthCalls,
                   synthInput, synthResult, review, status, exc>>
    /\ UNCHANGED <<loopVars, refineVars, concVars, stripVars, regVars, sideVars>>
    /\ UNCHANGED callVars

\* The consistency-check request fails: nothing in run() catches it.
CheckFail(o) ==
    /\ pc = "check"
    /\ o \in CallFailures
    /\ pc' = "raised"
    /\ exc' = o
    /\ UNCHANGED <<synthResult, impl, maxIter, agents, paper, task, resultCount, results,
                   fanout, netCalls, checkCalls, iteration, synthCalls,
                   synthInput, review, status>>
    /\ UNCHANGED <<clockVars, loopVars, refineVars, concVars, stripVars, regVars, sideVars>>
    /\ checkSession' = SessionOnExit(o)
    /\ UNCHANGED <<completion, session, synthSession, requests, raisedAs>>

\* The consistency check answers c.  `if not clarifications: break` leaves the
\* loop on the empty string only; otherwise refine_agents is called.
CheckRespond(c) ==
    /\ pc = "check"
    /\ c \in CheckContents
    /\ LET clar == remove_think_blocks(c)
           refined == IF clar = << >> THEN "break" ELSE refine_agents(clar, agents)
       IN /\ clarifications' = clar
          /\ refineCalls' = IF clar = << >> THEN refineCalls ELSE refineCalls + 1
          /\ IF refined \in {"AttributeError", "TypeError"}
             THEN /\ pc' = "raised"
                  /\ exc' = refined
                  /\ checkSession' = SessionOnExit("ok")
                  /\ UNCHANGED <<netCalls, checkCalls, iteration, synthCalls,
                                 synthInput, synthSession>>
             ELSE /\ exc' = exc
                  /\ netCalls' = netCalls + 1
                  /\ IF refined = "returned" /\ LoopContinues(iteration, maxIter)
                     THEN /\ CheckStart
                          /\ UNCHANGED <<synthCalls, synthInput, synthSession>>
                     ELSE /\ SynthStart(results)
                          /\ checkSession' = SessionOnExit("ok")
                          /\ UNCHANGED <<checkCalls, iteration>>
    /\ UNCHANGED <<synthResult, impl, maxIter, agents, paper, task, resultCount, results,
                   fanout, review, status>>
    /\ UNCHANGED <<clockVars, refineVars, concVars, stripVars, regVars, sideVars>>
    /\ UNCHANGED <<completion, session, requests, raisedAs>>

\* The synthesis request fails.  _generate_final_review catches it and returns
\* the fallback review; run() lets it propagate.
SynthFail(o) ==
    /\ pc = "synth"
    /\ o \in CallFailures
    /\ synthResult' = o
    /\ IF impl = "core"
       THEN /\ review' = GenerateFallbackReview(results)
            /\ status' = "success"
            /\ pc' = "done"
            /\ exc' = exc
       ELSE /\ pc' = "raised"
            /\ exc' = o
            /\ UNCHANGED <<review, status>>
    /\ UNCHANGED <<impl, maxIter, agents, paper, task, resultCount, results,
                   fanout, netCalls, checkCalls, iteration, synthCalls,
                   synthInput>>
    /\ UNCHANGED <<clockVars, loopVars, refineVars, concVars, stripVars, regVars, sideVars>>
    /\ synthSession' = IF synthSession = "open" THEN SessionOnExit(o)
                       ELSE synthSession
    /\ UNCHANGED <<completion, session, checkSession, requests, raisedAs>>

\* The synthesis request answers c.  _call_llm returns the content as it is;
\* run() passes it through remove_think_blocks.
SynthRespond(c) ==
    /\ pc = "synth"
    /\ c \in SynthContents
    /\ synthResult' = "ok"
    /\ review' = IF impl = "core" THEN c ELSE remove_think_blocks(c)
    /\ status' = IF impl = "core" THEN "success" ELSE "none"
    /\ pc' = "done"
    /\ UNCHANGED <<impl, maxIter, agents, paper, task, resultCount, results,
                   fanout, netCalls, checkCalls, iteration, synthCalls,
                   synthInput, exc>>
    /\ UNCHANGED <<clockVars, loopVars, refineVars, concVars, stripVars, regVars, sideVars>>
    /\ completion' = c
    /\ synthSession' = IF synthSession = "open" THEN SessionOnExit("ok")
                       ELSE synthSession
    /\ UNCHANGED <<session, checkSession, requests, raisedAs>>

\* asyncio.run(main()) in launch.py: when run() has raised, the loop is shut
\* down and the calls still in flight are cancelled.
LoopShutdown ==
    /\ impl = "iterative"
    /\ pc = "raised"
    /\ \E i \in 1..Len(task) : task[i] = "inflight"
    /\ task' = [i \in 1..Len(task) |->
                    IF task[i] = "inflight" THEN "cancelled" ELSE task[i]]
    /\ UNCHANGED <<synthResult, impl, maxIter, agents, paper, pc, resultCount, results,
                   fanout, netCalls, checkCalls, iteration, synthCalls,
                   synthInput, review, status, exc>>
    /\ UNCHANGED <<clockVars, loopVars, refineVars, concVars, stripVars, regVars, sideVars>>
    /\ session' = [i \in 1..Len(task) |->
                       IF task[i] = "inflight" /\ session[i] = "open"
                       THEN SessionOnExit("cancelled") ELSE session[i]]
    /\ UNCHANGED <<completion, checkSession, synthSession, requests, raisedAs>>

Next ==
    \/ \E n \in Names, a \in AgentIds : RegisterAgent(n, a)
    \/ \E p \in Papers : Run(p)
    \/ \E i \in 1..MaxAgents, o \in {"ok", "errdict", "raise"} \cup CallFailures :
          AgentComplete(i, o)
    \/ GatherRaise
    \/ GatherReturn
    \/ DeadlineElapses
    \/ \E o \in CallFailures : CheckFail(o)
    \/ \E c \in CheckContents : CheckRespond(c)
    \/ \E o \in CallFailures : SynthFail(o)
    \/ \E c \in SynthContents : SynthRespond(c)
    \/ LoopShutdown

Spec == Init /\ [][Next]_vars

\* ------------------------------------------- refine_agents, called directly

\* Arguments of refine_agents: the str check_and_ask returns, or a dict from
\* agent names to clarification messages.
ClarArgs ==
    [kind : {"str"}, val : {<< >>, <<"[", "]">>}]
    \cup [kind : {"dict"}, val : UNION {[S -> {"note"}] : S \in SUBSET Names}]

\* Agent lists with distinct names.
DistinctAgentLists ==
    {a \in SeqsUpTo(Names, MaxAgents) :
        \A i, j \in 1..Len(a) : a[i] = a[j] => i = j}

\* `for agent in clarification` has something to iterate over.
ClarNonEmpty(cl) ==
    IF cl.kind = "str" THEN Len(cl.val) > 0 ELSE DOMAIN cl.val # {}

\* clarification[agent.name] on a str raises TypeError, on a dict without the
\* name KeyError.
IndexError(cl) == IF cl.kind = "str" THEN "TypeError" ELSE "KeyError"

\* First position of ags whose name cl cannot be indexed by, 0 if none.
FirstUnindexed(cl, ags) ==
    LET bad == {i \in 1..Len(ags) :
                   cl.kind = "str" \/ ags[i] \notin DOMAIN cl.val}
    IN IF bad = {} THEN 0 ELSE CHOOSE i \in bad : \A j \in bad : i <= j

\* A prompt-append phase that appends to every agent before it fails.
AppendAllThenFail(cls, cl, ags) ==
    [exc |-> "AttributeError", appended |-> 1..Len(ags)]

\* The prompt-append loops of refine_agents, up to the gather: the exception
\* they end with ("none" if they complete) and the positions whose prompt
\* has been appended to by then.
\* IterativeOrchestrator: `for agent in clarification` evaluates agent.name on
\* a character or a key (AttributeError) before its first append; when there
\* is nothing to iterate, `for agent in self.agents` fails on the first
\* clarification[agent.name].
\* CheckedOrchestrator: `for agent in self.agents` appends agent by agent and
\* stops at the first clarification[agent.name] that fails.
AppendPhase(cls, cl, ags) ==
    IF cls = "iterative"
    THEN [exc |-> IF ClarNonEmpty(cl) THEN "AttributeError"
                  ELSE IF Len(ags) > 0 THEN IndexError(cl)
                  ELSE "none",
          appended |-> {}]
    ELSE LET k == FirstUnindexed(cl, ags)
         IN IF k = 0
            THEN [exc |-> "none", appended |-> 1..Len(ags)]
            ELSE [exc |-> IndexError(cl), appended |-> 1..(k - 1)]

\* agent.prompt += add_prompt for the positions in S; add_prompt carries
\* clarification[agent.name] (a str has no entry for a name, and AppendPhase
\* selects no position then).
AppendNotes(pr, cl, ags, S) ==
    [i \in 1..Len(ags) |->
        IF i \in S
        THEN Append(pr[i], IF cl.kind = "dict" THEN cl.val[ags[i]] ELSE "note")
        ELSE pr[i]]

\* The prompt field of a request that was never sent.
NotSent == <<"unsent">>

\* The main run is not started.
MainIdle ==
    /\ impl = "core"
    /\ maxIter = 0
    /\ agents = << >>
    /\ paper = << >>
    /\ pc = "idle"
    /\ task = << >>
    /\ resultCount = << >>
    /\ results = NoMapping
    /\ fanout = "none"
    /\ netCalls = 0
    /\ checkCalls = 0
    /\ iteration = 0
    /\ synthCalls = 0
    /\ synthInput = NoMapping
    /\ synthResult = "none"
    /\ review = << >>
    /\ status = "none"
    /\ exc = "none"
    /\ deadline = FALSE
    /\ pendingAtDeadline = {}
    /\ clarifications = Unset
    /\ refineCalls = 0
    /\ completion = Unset
    /\ session = << >>
    /\ checkSession = "none"
    /\ synthSession = "none"
    /\ requests = << >>
    /\ raisedAs = << >>
    /\ registry = NoMapping
    /\ lastReg = NoReg

InitRefine ==
    /\ MainIdle
    /\ rCls \in {"iterative", "checked"}
    /\ rAgents \in DistinctAgentLists
    /\ rPrompt = [i \in 1..Len(rAgents) |-> << >>]
    /\ clarification = [kind |-> "str", val |-> << >>]
    /\ old_prompts = << >>
    /\ rPc = "idle"
    /\ rExc = "none"
    /\ rTask = [i \in 1..Len(rAgents) |-> "none"]
    /\ rSent = [i \in 1..Len(rAgents) |-> NotSent]
    /\ rOut = NoMapping
    /\ ConcIdle
    /\ StripIdle
    /\ SideIdle

\* refine_agents(paper, cl) up to the awaited gather: the snapshot, the
\* appends, then one call per agent of self.agents, each building its request
\* from the prompt the agent holds at that moment.
RefineCall(cl) ==
    /\ rPc = "idle"
    /\ cl \in ClarArgs
    /\ clarification' = cl
    /\ old_prompts' = rPrompt
    /\ LET phase == AppendPhase(rCls, cl, rAgents)
       IN /\ rPrompt' = AppendNotes(rPrompt, cl, rAgents, phase.appended)
          /\ rExc' = phase.exc
          /\ IF phase.exc = "none"
             THEN /\ rPc' = "rerun"
                  /\ rTask' = [i \in 1..Len(rAgents) |-> "inflight"]
                  /\ rSent' = rPrompt'
             ELSE /\ rPc' = "raised"
                  /\ UNCHANGED <<rTask, rSent>>
    /\ UNCHANGED <<rCls, rAgents, rOut>>
    /\ UNCHANGED <<mainVars, concVars, stripVars, sideVars>>

\* One re-run call ends with outcome o.
RefineAgentComplete(i, o) ==
    /\ i \in 1..Len(rTask)
    /\ rTask[i] = "inflight"
    /\ o \in {"ok"} \cup CallFailures
    /\ rTask' = [rTask EXCEPT ![i] = o]
    /\ UNCHANGED <<rCls, rAgents, rPrompt, clarification, old_prompts, rPc,
                   rExc, rSent, rOut>>
    /\ UNCHANGED <<mainVars, concVars, stripVars, sideVars>>

\* gather re-raises the first exception of a re-run call: the statements
\* after the await, the restoring loop among them, are not executed.
RefineGatherRaise ==
    /\ rPc = "rerun"
    /\ \E i \in 1..Len(rTask) :
          /\ Raised(rTask[i])
          /\ rExc' = rTask[i]
    /\ rPc' = "raised"
    /\ UNCHANGED <<rCls, rAgents, rPrompt, clarification, old_prompts, rTask,
                   rSent, rOut>>
    /\ UNCHANGED <<mainVars, concVars, stripVars, sideVars>>

\* gather returns: every prompt is set back to its snapshot and the mapping
\* of the re-run results is returned.
RefineGatherReturn ==
    /\ rPc = "rerun"
    /\ AllSettled(rTask)
    /\ ~SomeRaised(rTask)
    /\ rPrompt' = old_prompts
    /\ rOut' = [n \in Range(rAgents) |-> "ok"]
    /\ rPc' = "returned"
    /\ UNCHANGED <<rCls, rAgents, clarification, old_prompts, rExc, rTask,
                   rSent>>
    /\ UNCHANGED <<mainVars, concVars, stripVars, sideVars>>

NextRefine ==
    \/ \E cl \in ClarArgs : RefineCall(cl)
    \/ \E i \in 1..MaxAgents, o \in {"ok"} \cup CallFailures :
          RefineAgentComplete(i, o)
    \/ RefineGatherRaise
    \/ RefineGatherReturn

SpecRefine == InitRefine /\ [][NextRefine]_vars

\* --------------------------------------------- remove_think_blocks alone

\* The pieces texts are made of.
Pieces == {"<think>", "</think>", "<thi", "</thi", "nk>", " ", "x"}

\* Every str of at most MaxTextLen pieces, each written in its one way.
Texts == {t \in SeqsUpTo(Pieces, MaxTextLen) : Canon(t) = t}

InitStrip ==
    /\ MainIdle
    /\ RefineIdle
    /\ ConcIdle
    /\ SideIdle
    /\ inputText \in Texts
    /\ stripped = Unset
    /\ restripped = Unset
    /\ stripPc = "input"

\* cleaned = remove_think_blocks(text)
StripOnce ==
    /\ stripPc = "input"
    /\ stripped' = remove_think_blocks(inputText)
    /\ stripPc' = "once"
    /\ UNCHANGED <<inputText, restripped>>
    /\ UNCHANGED <<mainVars, refineVars, concVars, sideVars>>

\* remove_think_blocks applied to its own result.
StripAgain ==
    /\ stripPc = "once"
    /\ restripped' = remove_think_blocks(stripped)
    /\ stripPc' = "twice"
    /\ UNCHANGED <<inputText, stripped>>
    /\ UNCHANGED <<mainVars, refineVars, concVars, sideVars>>

NextStrip ==
    \/ StripOnce
    \/ StripAgain

SpecStrip == InitStrip /\ [][NextStrip]_vars

\* ------------------------------------------------ two runs on one instance

\* Texts an agent call can return.
Outputs == {"p", "q"}

\* The agents of the shared instance: the first agents of a fixed list.
AgentOrder == <<"StructureAgent", "SummaryAgent", "CitationAgent">>

ConcAgentLists == {SubSeq(AgentOrder, 1, k) : k \in 1..MaxAgents}

\* A prompt that has not been assembled.
Unbuilt == <<[name |-> "unbuilt", out |-> "unbuilt"]>>

\* Results listed in the order the calls finished.
ResponsesAsCompleted(tk, order) == [k \in 1..Len(tk) |-> tk[order[k]]]

\* await asyncio.gather(*tasks): the results are listed in the order of the
\* awaitables passed in, whatever order they finished in.
GatherResponses(tk, order) == [i \in 1..Len(tk) |-> tk[i]]

\* dict(zip(tasks.keys(), responses)) / zip(agent_names, results), where a
\* failed call of core/orchestrator.py becomes an entry holding "error".
ZipResponses(ags, resp) ==
    [n \in Range(ags) |->
        IF resp[TaskOf(ags, n)] = "fail" THEN "error" ELSE resp[TaskOf(ags, n)]]

\* A read of the field that sees what it held before the store, as it would
\* when another run's store came between a run's store and its read.
ReadBeforeStore(field, mapping) ==
    IF DOMAIN field = DOMAIN mapping THEN field ELSE mapping

\* self.agents_responses as the prompt loop of run() reads it: the statements
\* from the store to the end of the loop hold no await, so the field holds
\* the mapping just stored.
ReadAfterStore(field, mapping) == mapping

\* for agent in self.agents: prompt += f"{agent.name} Response:\n{...}"
BuildPrompt(ags, r) ==
    [i \in 1..Len(ags) |-> [name |-> ags[i], out |-> r[ags[i]]]]

\* Orchestrator._build_review_prompt: the entries without "error", in the
\* order of the dict; the fields of the result are written out for
\* StructureAgent and SummaryAgent, the heading alone for any other name.
BuildReviewPrompt(ags, r) ==
    LET listed == SelectSeq(ags, LAMBDA n : r[n] # "error")
    IN [k \in 1..Len(listed) |->
           [name |-> listed[k],
            out |-> IF listed[k] \in {"StructureAgent", "SummaryAgent"}
                    THEN r[listed[k]] ELSE "omitted"]]

InitConc ==
    /\ MainIdle
    /\ RefineIdle
    /\ StripIdle
    /\ SideIdle
    /\ cImpl \in {"core", "simple", "iterative"}
    /\ cMaxIter \in 0..MaxIterations
    /\ cImpl # "iterative" => cMaxIter = 0
    /\ cAgents \in ConcAgentLists
    /\ agents_responses = NoMapping
    /\ cPrompt = [i \in 1..Len(cAgents) |-> << >>]
    /\ cPc = [r \in Runs |-> "idle"]
    /\ cTask = [r \in Runs |-> [i \in 1..Len(cAgents) |-> "none"]]
    /\ cOrder = [r \in Runs |-> << >>]
    /\ cSent = [r \in Runs |-> [i \in 1..Len(cAgents) |-> NotSent]]
    /\ cCheckPrompt = [r \in Runs |-> Unbuilt]
    /\ cSynthPrompt = [r \in Runs |-> Unbuilt]
    /\ cRefined = [r \in Runs |-> FALSE]
    /\ cAfterRefine = [r \in Runs |-> FALSE]

\* Run r starts: one call per agent, each building its request from the
\* prompt the agent holds at that moment.
ConcRun(r) ==
    /\ cPc[r] = "idle"
    /\ cPc' = [cPc EXCEPT ![r] = "agents"]
    /\ cTask' = [cTask EXCEPT ![r] = [i \in 1..Len(cAgents) |-> "inflight"]]
    /\ cSent' = [cSent EXCEPT ![r] = cPrompt]
    /\ cAfterRefine' = [cAfterRefine EXCEPT
                            ![r] = \E q \in Runs \ {r} : cRefined[q]]
    /\ UNCHANGED <<cImpl, cMaxIter, cAgents, agents_responses, cPrompt, cOrder,
                   cCheckPrompt, cSynthPrompt, cRefined>>
    /\ UNCHANGED <<mainVars, refineVars, stripVars, sideVars>>

\* The call of agent i in run r ends: with a text, or in failure.
ConcAgentComplete(r, i, o) ==
    /\ i \in 1..Len(cAgents)
    /\ cTask[r][i] = "inflight"
    /\ o \in Outputs \cup {"fail"}
    /\ cTask' = [cTask EXCEPT ![r][i] = o]
    /\ cOrder' = [cOrder EXCEPT ![r] = Append(@, i)]
    /\ UNCHANGED <<cImpl, cMaxIter, cAgents, agents_responses, cPrompt, cPc,
                   cSent, cCheckPrompt, cSynthPrompt, cRefined, cAfterRefine>>
    /\ UNCHANGED <<mainVars, refineVars, stripVars, sideVars>>

\* gather of run r re-raises a failed call (run() only).
ConcGatherRaise(r) ==
    /\ cPc[r] = "agents"
    /\ ~ReturnExceptions(cImpl)
    /\ \E i \in 1..Len(cAgents) : cTask[r][i] = "fail"
    /\ cPc' = [cPc EXCEPT ![r] = "raised"]
    /\ UNCHANGED <<cImpl, cMaxIter, cAgents, agents_responses, cPrompt, cTask,
                   cOrder, cSent, cCheckPrompt, cSynthPrompt, cRefined,
                   cAfterRefine>>
    /\ UNCHANGED <<mainVars, refineVars, stripVars, sideVars>>

\* gather of run r returns.  process_paper keeps the mapping in a local and
\* builds the review prompt from it.  run() stores the mapping in the
\* instance field and, before its next await, builds from that field the
\* consistency-check prompt (loop entered) or the synthesis prompt.
ConcGatherReturn(r) ==
    /\ cPc[r] = "agents"
    /\ \A i \in 1..Len(cAgents) : cTask[r][i] # "inflight"
    /\ ReturnExceptions(cImpl) \/ \A i \in 1..Len(cAgents) : cTask[r][i] # "fail"
    /\ LET mapping == ZipResponses(cAgents, GatherResponses(cTask[r], cOrder[r]))
       IN IF cImpl = "core"
          THEN /\ cSynthPrompt' = [cSynthPrompt EXCEPT
                                      ![r] = BuildReviewPrompt(cAgents, mapping)]
               /\ cPc' = [cPc EXCEPT ![r] = "synth"]
               /\ UNCHANGED <<agents_responses, cCheckPrompt>>
          ELSE /\ agents_responses' = mapping
               /\ IF cImpl = "iterative" /\ LoopContinues(0, cMaxIter)
                  THEN /\ cCheckPrompt' = [cCheckPrompt EXCEPT
                                              ![r] = BuildPrompt(cAgents,
                                                  ReadAfterStore(agents_responses, mapping))]
                       /\ cPc' = [cPc EXCEPT ![r] = "check"]
                       /\ UNCHANGED cSynthPrompt
                  ELSE /\ cSynthPrompt' = [cSynthPrompt EXCEPT
                                              ![r] = BuildPrompt(cAgents,
                                                  ReadAfterStore(agents_responses, mapping))]
                       /\ cPc' = [cPc EXCEPT ![r] = "synth"]
                       /\ UNCHANGED cCheckPrompt
    /\ UNCHANGED <<cImpl, cMaxIter, cAgents, cPrompt, cTask, cOrder, cSent,
                   cRefined, cAfterRefine>>
    /\ UNCHANGED <<mainVars, refineVars, stripVars, sideVars>>

\* The consistency check of run r answers c.  On the empty string the loop is
\* left and the synthesis prompt is built from the instance field as it is
\* now.  Otherwise refine_agents is called with the str, and the exception of
\* its append phase leaves run().
ConcCheckRespond(r, c) ==
    /\ cPc[r] = "check"
    /\ c \in CheckContents
    /\ LET clar == remove_think_blocks(c)
           phase == AppendPhase(cImpl, [kind |-> "str", val |-> clar], cAgents)
       IN IF clar = << >>
          THEN /\ cSynthPrompt' = [cSynthPrompt EXCEPT
                                      ![r] = BuildPrompt(cAgents, agents_responses)]
               /\ cPc' = [cPc EXCEPT ![r] = "synth"]
               /\ UNCHANGED <<cPrompt, cRefined>>
          ELSE /\ cPrompt' = AppendNotes(cPrompt, [kind |-> "str", val |-> clar],
                                         cAgents, phase.appended)
               /\ cRefined' = [cRefined EXCEPT ![r] = TRUE]
               /\ cPc' = [cPc EXCEPT ![r] = "raised"]
               /\ UNCHANGED cSynthPrompt
    /\ UNCHANGED <<cImpl, cMaxIter, cAgents, agents_responses, cTask, cOrder,
                   cSent, cCheckPrompt, cAfterRefine>>
    /\ UNCHANGED <<mainVars, refineVars, stripVars, sideVars>>

\* The consistency-check request of run r fails.
ConcCheckFail(r) ==
    /\ cPc[r] = "check"
    /\ cPc' = [cPc EXCEPT ![r] = "raised"]
    /\ UNCHANGED <<cImpl, cMaxIter, cAgents, agents_responses, cPrompt, cTask,
                   cOrder, cSent, cCheckPrompt, cSynthPrompt, cRefined,
                   cAfterRefine>>
    /\ UNCHANGED <<mainVars, refineVars, stripVars, sideVars>>

\* The synthesis request of run r ends: answered, or failed (process_paper
\* falls back and returns, run() raises).
ConcSynthEnd(r, answered) ==
    /\ cPc[r] = "synth"
    /\ cPc' = [cPc EXCEPT ![r] = IF answered \/ cImpl = "core"
                                  THEN "done" ELSE "raised"]
    /\ UNCHANGED <<cImpl, cMaxIter, cAgents, agents_responses, cPrompt, cTask,
                   cOrder, cSent, cCheckPrompt, cSynthPrompt, cRefined,
                   cAfterRefine>>
    /\ UNCHANGED <<mainVars, refineVars, stripVars, sideVars>>

NextConc ==
    \/ \E r \in Runs : ConcRun(r)
    \/ \E r \in Runs, i \in 1..MaxAgents, o \in Outputs \cup {"fail"} :
          ConcAgentComplete(r, i, o)
    \/ \E r \in Runs : ConcGatherRaise(r)
    \/ \E r \in Runs : ConcGatherReturn(r)
    \/ \E r \in Runs, c \in CheckContents : ConcCheckRespond(r, c)
    \/ \E r \in Runs : ConcCheckFail(r)
    \/ \E r \in Runs, answered \in BOOLEAN : ConcSynthEnd(r, answered)

SpecConc == InitConc /\ [][NextConc]_vars

\* ------------------------------------------------------ truncate_text alone

\* The characters of the texts given to truncate_text.
Chars == {"a", "."}

\* text[:k] of Python: the first k characters for k >= 0, all but the last
\* -k characters for k < 0.
SliceTo(t, k) ==
    IF k >= 0
    THEN SubSeq(t, 1, IF k < Len(t) THEN k ELSE Len(t))
    ELSE SubSeq(t, 1, IF Len(t) + k > 0 THEN Len(t) + k ELSE 0)

Ellipsis == <<".", ".", ".">>

\* utils/formatters.py truncate_text
truncate_text(t, m) ==
    IF Len(t) <= m THEN t ELSE SliceTo(t, m - 3) \o Ellipsis

\* Everything but truncate_text is at rest.
CoreIdle ==
    /\ MainIdle
    /\ RefineIdle
    /\ ConcIdle
    /\ StripIdle

InitTrunc ==
    /\ CoreIdle
    /\ FormatIdle
    /\ BotIdle
    /\ truncText \in SeqsUpTo(Chars, MaxTextLen)
    /\ max_length \in 0..MaxLength
    /\ truncated = Unset
    /\ truncPc = "input"

\* result = truncate_text(text, max_length)
TruncateText ==
    /\ truncPc = "input"
    /\ truncated' = truncate_text(truncText, max_length)
    /\ truncPc' = "done"
    /\ UNCHANGED <<truncText, max_length>>
    /\ UNCHANGED <<coreVars, fmtVars, botVars>>

NextTrunc == TruncateText

SpecTrunc == InitTrunc /\ [][NextTrunc]_vars

\* ------------------------------------------------------ format_review alone

\* The ways format_review is called: format_review(results),
\* format_review(results, metadata), and with the keyword verbose as
\* bot/handlers.py process_file_async and the formatter test call it.
CallShapes == {"results", "metadata", "verbose"}

\* An agent entry: a dict of analysis fields, a dict holding "error", or a
\* value that is no dict (a str, as BaseAgent.run returns).
EntryKinds == {"fields", "error", "str"}

\* The dicts given as results: processing_status, the error detail or none,
\* agent_results, and whether final_review is set.
ResultDicts ==
    UNION {[isDict : {TRUE}, status : {"success", "error"},
            error : {"none", "detail"},
            agent_results : [D -> EntryKinds],
            final_review : BOOLEAN] : D \in SUBSET Names}

\* The agents format_review has a section for.
RenderedAgents == {"StructureAgent", "SummaryAgent"}

\* format_error_message(error)
format_error_message(error) ==
    [raised |-> FALSE, kind |-> "errmsg", detail |-> error, inline |-> {},
     analyses |-> {}, review |-> FALSE]

\* format_structure_analysis / format_summary_analysis raise on an entry
\* that is no dict: `"error" in entry` is a substring test on a str, and
\* entry.get raises AttributeError.
SectionRaises(entry) == entry = "str"

\* The body of format_review, inside its try.
FormatBody(res) ==
    IF ~res.isDict
    THEN format_error_message("formatting")
    ELSE IF res.status = "error"
    THEN format_error_message(IF res.error = "none" THEN "Unknown error"
                              ELSE res.error)
    ELSE LET shown == DOMAIN res.agent_results \cap RenderedAgents
         IN IF \E n \in shown : SectionRaises(res.agent_results[n])
            THEN format_error_message("formatting")
            ELSE [raised |-> FALSE, kind |-> "review", detail |-> "none",
                  inline |-> {n \in shown : res.agent_results[n] = "error"},
                  analyses |-> {n \in shown : res.agent_results[n] = "fields"},
                  review |-> res.final_review]

\* A call of format_review(results, metadata=None): a keyword the signature
\* does not have is a TypeError of the call.
format_review(call, res) ==
    IF call = "verbose"
    THEN [raised |-> TRUE, kind |-> "TypeError", detail |-> "none",
          inline |-> {}, analyses |-> {}, review |-> FALSE]
    ELSE FormatBody(res)

InitFormat ==
    /\ CoreIdle
    /\ TruncIdle
    /\ BotIdle
    /\ fmtCall \in CallShapes
    /\ fmtResults \in ResultDicts \cup {NotADict}
    /\ formatted = NotFormatted
    /\ fmtPc = "input"

\* formatted_review = format_review(...)
FormatReview ==
    /\ fmtPc = "input"
    /\ formatted' = format_review(fmtCall, fmtResults)
    /\ fmtPc' = "done"
    /\ UNCHANGED <<fmtCall, fmtResults>>
    /\ UNCHANGED <<coreVars, truncVars, botVars>>

NextFormat == FormatReview

SpecFormat == InitFormat /\ [][NextFormat]_vars

\* ------------------------------------------------------------- the bots

\* The programs that take a PDF from a user:
\*   "bot"      bot/handlers.py              (orchestrator in the bot process)
\*   "srcbot"   src/bot/handlers.py          (client of the review server)
\*   "service"  bot_service_handlers.py      (client of llm_service)
\*   "endpoint" llm_service.py               (POST /extract-pdf)
Bots == {"bot", "srcbot", "service", "endpoint"}

\* File names as their parts: a stem and dot-suffixes.
FileNames == {<<"a", ".pdf">>, <<"a", ".PDF">>, <<"a", ".txt">>, <<".pdf">>}

FileSizes == {MaxFileSize, MaxFileSize + 1}

Files == [name : FileNames, size : FileSizes]

\* str.lower() on a part of a file name.
Lower(part) == IF part = ".PDF" THEN ".pdf" ELSE part

IsDotPart(part) == part \in {".pdf", ".PDF", ".txt"}

\* Path(filename).suffix: the last dot-suffix of the name; a name that is
\* only a leading-dot part has none.
Suffix(filename) ==
    IF Len(filename) >= 2 /\ IsDotPart(filename[Len(filename)])
    THEN filename[Len(filename)]
    ELSE ""

\* PDFExtractor.validate_file_extension
validate_file_extension(filename) == Lower(Suffix(filename)) \in {".pdf"}

\* A size check that refuses the maximum itself.
SizeBelow(file_size, max_size) == file_size < max_size

\* PDFExtractor.validate_file_size
validate_file_size(file_size, max_size) == file_size <= max_size

\* document.file_name.lower().endswith('.pdf')
EndsWithPdf(filename) ==
    Len(filename) >= 1 /\ Lower(filename[Len(filename)]) = ".pdf"

\* The checks each handler makes before it accepts a document.
Accepts(b, f) ==
    CASE b = "bot" -> /\ validate_file_extension(f.name)
                      /\ validate_file_size(f.size, MaxFileSize)
      [] b = "srcbot" -> EndsWithPdf(f.name) /\ ~(f.size > MaxFileSize)
      [] b = "service" -> EndsWithPdf(f.name) /\ ~(f.size > ServiceMaxFileSize)
      [] OTHER -> TRUE

\* How an awaited call ends: it returns, it raises, or (where a temporary
\* file is created outside the try that deletes it) it raises after the file
\* was created.
Outcomes == {"ok", "fail", "tempfail"}

\* Positions at which a task created with asyncio.create_task is suspended.
TaskPositions == {"download", "extract", "review", "publish", "errmsg",
                  "cancelmsg"}

\* Positions at which a document is being processed.
Processing == TaskPositions \cup {"progress", "finally"}

\* The next document of the user.
NextDoc(k) == dpc[k] = "none" /\ \A j \in 1..(k - 1) : dpc[j] # "none"

\* The results of a review that succeeded, as the review server returns them.
SampleResults ==
    [isDict |-> TRUE, status |-> "success", error |-> "none",
     agent_results |-> NoMapping, final_review |-> TRUE]

InitBot ==
    /\ CoreIdle
    /\ TruncIdle
    /\ FormatIdle
    /\ bot \in Bots
    /\ fsmState = "none"
    /\ active_tasks = 0
    /\ docFile = [k \in Docs |-> NoFile]
    /\ dpc = [k \in Docs |-> "none"]
    /\ cancelReq = [k \in Docs |-> FALSE]
    /\ tmp = [k \in Docs |-> "none"]
    /\ published = [k \in Docs |-> FALSE]
    /\ extracted = [k \in Docs |-> FALSE]
    /\ reviewed = [k \in Docs |-> FALSE]
    /\ stateOwner = 0
    /\ cancelSeen = [k \in Docs |-> FALSE]

\* ---- bot/handlers.py

\* handle_document up to `await task`: a document that fails a check is
\* answered and dropped; otherwise the state becomes processing, the task is
\* created and stored in active_tasks.
HandleDocument(k, f) ==
    /\ bot = "bot"
    /\ fsmState = "waiting"
    /\ NextDoc(k)
    /\ docFile' = [docFile EXCEPT ![k] = f]
    /\ IF Accepts(bot, f)
       THEN /\ fsmState' = "processing"
            /\ stateOwner' = k
            /\ active_tasks' = k
            /\ dpc' = [dpc EXCEPT ![k] = "download"]
       ELSE /\ dpc' = [dpc EXCEPT ![k] = "rejected"]
            /\ UNCHANGED <<fsmState, stateOwner, active_tasks>>
    /\ UNCHANGED <<bot, cancelReq, tmp, published, extracted, reviewed,
                   cancelSeen>>
    /\ UNCHANGED <<coreVars, truncVars, fmtVars>>

\* process_document resumes from an await.  A pending cancellation is
\* delivered there and caught by `except asyncio.CancelledError`; a failure is
\* caught by `except Exception`.  extract_from_bytes runs between two awaits:
\* it writes the temporary file and deletes it in its finally, but a write
\* that fails leaves the file, being outside the try.
ProcessDocumentStep(k, o) ==
    /\ bot = "bot"
    /\ dpc[k] \in TaskPositions
    /\ o = "tempfail" => (dpc[k] = "extract" /\ ~cancelReq[k])
    /\ cancelReq' = [cancelReq EXCEPT ![k] = FALSE]
    /\ IF cancelReq[k] /\ dpc[k] \in {"download", "extract", "review", "publish"}
       THEN /\ dpc' = [dpc EXCEPT ![k] = "cancelmsg"]
            /\ UNCHANGED <<tmp, published, extracted, reviewed>>
       ELSE CASE dpc[k] = "download" ->
                   /\ dpc' = [dpc EXCEPT ![k] = IF o = "ok" THEN "extract"
                                                 ELSE "errmsg"]
                   /\ UNCHANGED <<tmp, published, extracted, reviewed>>
              [] dpc[k] = "extract" ->
                   /\ dpc' = [dpc EXCEPT ![k] = IF o = "ok" THEN "review"
                                                 ELSE "errmsg"]
                   /\ extracted' = [extracted EXCEPT ![k] = TRUE]
                   /\ tmp' = [tmp EXCEPT ![k] = IF o = "tempfail"
                                                 THEN "ondisk" ELSE "deleted"]
                   /\ UNCHANGED <<published, reviewed>>
              [] dpc[k] = "review" ->
                   /\ dpc' = [dpc EXCEPT ![k] = IF o = "ok" THEN "publish"
                                                 ELSE "errmsg"]
                   /\ reviewed' = [reviewed EXCEPT ![k] = TRUE]
                   /\ UNCHANGED <<tmp, published, extracted>>
              [] dpc[k] = "publish" ->
                   /\ dpc' = [dpc EXCEPT ![k] = IF o = "ok" THEN "finally"
                                                 ELSE "errmsg"]
                   /\ published' = [published EXCEPT ![k] = (o = "ok")]
                   /\ UNCHANGED <<tmp, extracted, reviewed>>
              [] OTHER ->
                   /\ dpc' = [dpc EXCEPT ![k] = "finally"]
                   /\ UNCHANGED <<tmp, published, extracted, reviewed>>
    /\ UNCHANGED <<bot, fsmState, active_tasks, docFile, stateOwner,
                   cancelSeen>>
    /\ UNCHANGED <<coreVars, truncVars, fmtVars>>

\* handle_document after `await task`: finally: active_tasks.pop(user_id,
\* None); await state.clear().
HandleDocumentFinally(k) ==
    /\ bot = "bot"
    /\ dpc[k] = "finally"
    /\ dpc' = [dpc EXCEPT ![k] = "ended"]
    /\ active_tasks' = 0
    /\ fsmState' = "none"
    /\ stateOwner' = 0
    /\ UNCHANGED <<bot, docFile, cancelReq, tmp, published, extracted,
                   reviewed, cancelSeen>>
    /\ UNCHANGED <<coreVars, truncVars, fmtVars>>

\* ---- handlers bot/handlers.py and src/bot/handlers.py have in common

\* cancel_processing: the task in active_tasks is cancelled and its entry
\* removed, the state is cleared.
CancelProcessing ==
    /\ bot \in {"bot", "srcbot"}
    /\ cancelReq' = [k \in Docs |->
                        \/ cancelReq[k]
                        \/ (k = active_tasks /\ dpc[k] \in TaskPositions)]
    /\ active_tasks' = 0
    /\ fsmState' = "none"
    /\ stateOwner' = 0
    /\ UNCHANGED <<bot, docFile, dpc, tmp, published, extracted, reviewed,
                   cancelSeen>>
    /\ UNCHANGED <<coreVars, truncVars, fmtVars>>

\* request_file (and new_paper of bot/handlers.py): await
\* state.set_state(ProcessingState.waiting_for_file), whatever the state is.
RequestFile ==
    /\ bot \in {"bot", "srcbot"}
    /\ fsmState' = "waiting"
    /\ stateOwner' = 0
    /\ UNCHANGED <<bot, active_tasks, docFile, dpc, cancelReq, tmp, published,
                   extracted, reviewed, cancelSeen>>
    /\ UNCHANGED <<coreVars, truncVars, fmtVars>>

\* cmd_start (and back_to_main of src/bot/handlers.py): await state.clear().
CmdStart ==
    /\ bot \in {"bot", "srcbot"}
    /\ fsmState' = "none"
    /\ stateOwner' = 0
    /\ UNCHANGED <<bot, active_tasks, docFile, dpc, cancelReq, tmp, published,
                   extracted, reviewed, cancelSeen>>
    /\ UNCHANGED <<coreVars, truncVars, fmtVars>>

\* ---- src/bot/handlers.py

\* process_document up to `await llm_client.health_check()`: the state is
\* still waiting_for_file while the check is awaited.
SrcProcessDocument(k, f) ==
    /\ bot = "srcbot"
    /\ fsmState = "waiting"
    /\ NextDoc(k)
    /\ docFile' = [docFile EXCEPT ![k] = f]
    /\ dpc' = [dpc EXCEPT ![k] = IF Accepts(bot, f) THEN "health"
                                  ELSE "rejected"]
    /\ UNCHANGED <<bot, fsmState, active_tasks, cancelReq, tmp, published,
                   extracted, reviewed, stateOwner, cancelSeen>>
    /\ UNCHANGED <<coreVars, truncVars, fmtVars>>

\* health_check has returned: False (it catches its failures) ends the
\* handler; True sets the state to processing, and the progress message is
\* awaited.
HealthChecked(k, o) ==
    /\ bot = "srcbot"
    /\ dpc[k] = "health"
    /\ o \in {"ok", "fail"}
    /\ IF o = "ok"
       THEN /\ fsmState' = "processing"
            /\ stateOwner' = k
            /\ dpc' = [dpc EXCEPT ![k] = "progress"]
       ELSE /\ dpc' = [dpc EXCEPT ![k] = "rejected"]
            /\ UNCHANGED <<fsmState, stateOwner>>
    /\ UNCHANGED <<bot, active_tasks, docFile, cancelReq, tmp, published,
                   extracted, reviewed, cancelSeen>>
    /\ UNCHANGED <<coreVars, truncVars, fmtVars>>

\* `progress_message = await message.answer(...)` has ended: the task is
\* created and stored in active_tasks; when the call raised the handler ends
\* there, no try around it.
ProgressSent(k, o) ==
    /\ bot = "srcbot"
    /\ dpc[k] = "progress"
    /\ o \in {"ok", "fail"}
    /\ IF o = "ok"
       THEN /\ active_tasks' = k
            /\ dpc' = [dpc EXCEPT ![k] = "download"]
       ELSE /\ dpc' = [dpc EXCEPT ![k] = "died"]
            /\ UNCHANGED active_tasks
    /\ UNCHANGED <<bot, fsmState, docFile, cancelReq, tmp, published,
                   extracted, reviewed, stateOwner, cancelSeen>>
    /\ UNCHANGED <<coreVars, truncVars, fmtVars>>

\* The task ends with the finally of process_file_async.
TaskEnds(pos) == pos \in {"finally"}

\* process_file_async resumes from an await.  CancelledError is no Exception:
\* a pending cancellation goes straight to the finally.  A result that is not
\* a success is reported and the function returns; a reviewed paper is
\* formatted with format_review(..., verbose=verbose).  The finally deletes
\* the temporary file, deletes active_tasks[user_id] if the user has an entry,
\* and clears the state.
ProcessFileAsyncStep(k, o) ==
    /\ bot = "srcbot"
    /\ dpc[k] \in TaskPositions
    /\ o \in {"ok", "fail"}
    /\ cancelReq' = [cancelReq EXCEPT ![k] = FALSE]
    /\ LET next ==
               IF cancelReq[k] THEN "finally"
               ELSE CASE dpc[k] = "download" ->
                           IF o = "ok" THEN "extract" ELSE "errmsg"
                      [] dpc[k] = "extract" ->
                           IF o = "ok" THEN "review" ELSE "errmsg"
                      [] dpc[k] = "review" ->
                           IF o = "ok"
                              /\ ~format_review("verbose", SampleResults).raised
                           THEN "publish" ELSE "errmsg"
                      [] dpc[k] = "publish" ->
                           IF o = "ok" THEN "finally" ELSE "errmsg"
                      [] OTHER -> "finally"
           onDisk == \/ tmp[k] = "ondisk"
                     \/ (dpc[k] = "download" /\ ~cancelReq[k] /\ o = "ok")
       IN /\ dpc' = [dpc EXCEPT ![k] = IF TaskEnds(next) THEN "ended" ELSE next]
          /\ extracted' = [extracted EXCEPT
                              ![k] = @ \/ (dpc[k] = "extract" /\ ~cancelReq[k])]
          /\ reviewed' = [reviewed EXCEPT
                             ![k] = @ \/ (dpc[k] = "review" /\ ~cancelReq[k])]
          /\ published' = [published EXCEPT
                              ![k] = @ \/ (dpc[k] = "publish" /\ ~cancelReq[k]
                                             /\ o = "ok")]
          /\ IF TaskEnds(next)
             THEN /\ tmp' = [tmp EXCEPT ![k] = IF onDisk THEN "deleted" ELSE @]
                  /\ active_tasks' = 0
                  /\ fsmState' = "none"
                  /\ stateOwner' = 0
             ELSE /\ tmp' = [tmp EXCEPT ![k] = IF onDisk THEN "ondisk" ELSE @]
                  /\ UNCHANGED <<active_tasks, fsmState, stateOwner>>
    /\ UNCHANGED <<bot, docFile, cancelSeen>>
    /\ UNCHANGED <<coreVars, truncVars, fmtVars>>

\* new_analysis: await state.clear(); await callback.message.edit_text(...);
\* await state.set_state(waiting_for_file), which a failed edit skips.
NewAnalysis(o) ==
    /\ bot = "srcbot"
    /\ o \in {"ok", "fail"}
    /\ fsmState' = IF o = "ok" THEN "waiting" ELSE "none"
    /\ stateOwner' = 0
    /\ UNCHANGED <<bot, active_tasks, docFile, dpc, cancelReq, tmp, published,
                   extracted, reviewed, cancelSeen>>
    /\ UNCHANGED <<coreVars, truncVars, fmtVars>>

\* ---- bot_service_handlers.py

\* start_handler (and new_review_callback, back_to_main_callback):
\* await state.clear(); a message; await state.set_state(waiting_for_document).
StartHandler(o) ==
    /\ bot = "service"
    /\ o \in {"ok", "fail"}
    /\ fsmState' = IF o = "ok" THEN "waiting" ELSE "none"
    /\ stateOwner' = 0
    /\ UNCHANGED <<bot, active_tasks, docFile, dpc, cancelReq, tmp, published,
                   extracted, reviewed, cancelSeen>>
    /\ UNCHANGED <<coreVars, truncVars, fmtVars>>

\* cancel_handler: await state.clear(); await message.answer(...);
\* await state.set_state(waiting_for_document).  Nothing is cancelled: no
\* handle to the running document_handler is kept.
CancelHandler(o) ==
    /\ bot = "service"
    /\ o \in {"ok", "fail"}
    /\ fsmState' = IF o = "ok" THEN "waiting" ELSE "none"
    /\ stateOwner' = 0
    /\ cancelSeen' = [k \in Docs |->
                         \/ cancelSeen[k]
                         \/ (fsmState = "processing" /\ stateOwner = k)]
    /\ UNCHANGED <<bot, active_tasks, docFile, dpc, cancelReq, tmp, published,
                   extracted, reviewed>>
    /\ UNCHANGED <<coreVars, truncVars, fmtVars>>

\* document_handler up to `processing_message = await message.answer(...)`:
\* the state is still waiting_for_document while the message is awaited.
DocumentHandler(k, f) ==
    /\ bot = "service"
    /\ fsmState = "waiting"
    /\ NextDoc(k)
    /\ docFile' = [docFile EXCEPT ![k] = f]
    /\ dpc' = [dpc EXCEPT ![k] = IF Accepts(bot, f) THEN "progress"
                                  ELSE "rejected"]
    /\ cancelSeen' = [j \in Docs |-> FALSE]
    /\ UNCHANGED <<bot, fsmState, active_tasks, cancelReq, tmp, published,
                   extracted, reviewed, stateOwner>>
    /\ UNCHANGED <<coreVars, truncVars, fmtVars>>

\* document_handler resumes from an await.  The temporary file is created by
\* NamedTemporaryFile(delete=False) and the download is awaited inside that
\* with block, before the try whose finally unlinks the file.  The except
\* clause reports the error and sets the state to waiting_for_document.
DocumentHandlerStep(k, o) ==
    /\ bot = "service"
    /\ dpc[k] \in {"progress", "download", "review", "publish", "errmsg"}
    /\ o = "tempfail" => dpc[k] = "download"
    /\ CASE dpc[k] = "progress" ->
              /\ dpc' = [dpc EXCEPT ![k] = IF o = "ok" THEN "download"
                                            ELSE "died"]
              /\ fsmState' = IF o = "ok" THEN "processing" ELSE fsmState
              /\ stateOwner' = IF o = "ok" THEN k ELSE stateOwner
              /\ UNCHANGED <<tmp, published, extracted, reviewed>>
         [] dpc[k] = "download" ->
              /\ dpc' = [dpc EXCEPT ![k] = IF o = "ok" THEN "review"
                                            ELSE "errmsg"]
              /\ tmp' = [tmp EXCEPT ![k] = IF o = "fail" THEN @ ELSE "ondisk"]
              /\ extracted' = [extracted EXCEPT ![k] = (o = "ok")]
              /\ UNCHANGED <<fsmState, stateOwner, published, reviewed>>
         [] dpc[k] = "review" ->
              /\ dpc' = [dpc EXCEPT ![k] = IF o = "ok" THEN "publish"
                                            ELSE "errmsg"]
              /\ tmp' = [tmp EXCEPT ![k] = IF o = "ok" THEN @ ELSE "deleted"]
              /\ reviewed' = [reviewed EXCEPT ![k] = TRUE]
              /\ UNCHANGED <<fsmState, stateOwner, published, extracted>>
         [] dpc[k] = "publish" ->
              /\ dpc' = [dpc EXCEPT ![k] = IF o = "ok" THEN "ended"
                                            ELSE "errmsg"]
              /\ tmp' = [tmp EXCEPT ![k] = "deleted"]
              /\ published' = [published EXCEPT ![k] = (o = "ok")]
              /\ fsmState' = IF o = "ok" THEN "results" ELSE fsmState
              /\ stateOwner' = IF o = "ok" THEN 0 ELSE stateOwner
              /\ UNCHANGED <<extracted, reviewed>>
         [] OTHER ->
              /\ dpc' = [dpc EXCEPT ![k] = IF o = "ok" THEN "ended"
                                            ELSE "died"]
              /\ fsmState' = IF o = "ok" THEN "waiting" ELSE fsmState
              /\ stateOwner' = IF o = "ok" THEN 0 ELSE stateOwner
              /\ UNCHANGED <<tmp, published, extracted, reviewed>>
    /\ UNCHANGED <<bot, active_tasks, docFile, cancelReq, cancelSeen>>
    /\ UNCHANGED <<coreVars, truncVars, fmtVars>>

\* ---- llm_service.py

\* extract_pdf_text up to `await pdf_extractor.extract_text_and_metadata`:
\* the temporary file is written in a with block before the inner try; a
\* write that fails leaves it and ends the request with HTTP 500.
ExtractPdfText(k, o) ==
    /\ bot = "endpoint"
    /\ NextDoc(k)
    /\ o \in {"ok", "tempfail"}
    /\ docFile' = [docFile EXCEPT ![k] = [name |-> <<"a", ".pdf">>,
                                          size |-> MaxFileSize]]
    /\ tmp' = [tmp EXCEPT ![k] = "ondisk"]
    /\ dpc' = [dpc EXCEPT ![k] = IF o = "ok" THEN "extract" ELSE "died"]
    /\ UNCHANGED <<bot, fsmState, active_tasks, cancelReq, published,
                   extracted, reviewed, stateOwner, cancelSeen>>
    /\ UNCHANGED <<coreVars, truncVars, fmtVars>>

\* The extraction ends: PDFExtractor has no extract_text_and_metadata, so the
\* call raises AttributeError; the finally unlinks the file and the request
\* ends with HTTP 500.
ExtractPdfTextStep(k) ==
    /\ bot = "endpoint"
    /\ dpc[k] = "extract"
    /\ tmp' = [tmp EXCEPT ![k] = "deleted"]
    /\ extracted' = [extracted EXCEPT ![k] = TRUE]
    /\ dpc' = [dpc EXCEPT ![k] = "ended"]
    /\ UNCHANGED <<bot, fsmState, active_tasks, docFile, cancelReq, published,
                   reviewed, stateOwner, cancelSeen>>
    /\ UNCHANGED <<coreVars, truncVars, fmtVars>>

\* What the programs do by themselves, once the user has acted.
SystemStep ==
    \/ \E k \in Docs, o \in Outcomes : ProcessDocumentStep(k, o)
    \/ \E k \in Docs : HandleDocumentFinally(k)
    \/ \E k \in Docs, o \in Outcomes : HealthChecked(k, o)
    \/ \E k \in Docs, o \in Outcomes : ProgressSent(k, o)
    \/ \E k \in Docs, o \in Outcomes : ProcessFileAsyncStep(k, o)
    \/ \E k \in Docs, o \in Outcomes : DocumentHandlerStep(k, o)
    \/ \E k \in Docs : ExtractPdfTextStep(k)

\* What the user (or the client of the endpoint) does.
UserStep ==
    \/ \E k \in Docs, f \in Files : HandleDocument(k, f)
    \/ \E k \in Docs, f \in Files : SrcProcessDocument(k, f)
    \/ \E k \in Docs, f \in Files : DocumentHandler(k, f)
    \/ \E k \in Docs, o \in Outcomes : ExtractPdfText(k, o)
    \/ CancelProcessing
    \/ RequestFile
    \/ CmdStart
    \/ \E o \in Outcomes : NewAnalysis(o)
    \/ \E o \in Outcomes : StartHandler(o)
    \/ \E o \in Outcomes : CancelHandler(o)

NextBot == SystemStep \/ UserStep

\* bot/handlers.py alone: the program whose handle_document validates with
\* PDFExtractor.validate_file_extension and validate_file_size.
InitHandlers == InitBot /\ bot = "bot"

NextHandlers ==
    \/ \E k \in Docs, f \in Files : HandleDocument(k, f)
    \/ \E k \in Docs, o \in Outcomes : ProcessDocumentStep(k, o)
    \/ \E k \in Docs : HandleDocumentFinally(k)
    \/ CancelProcessing
    \/ RequestFile
    \/ CmdStart

SpecHandlers == InitHandlers /\ [][NextHandlers]_vars

SpecBot == InitBot /\ [][NextBot]_vars

\* Every call a handler or task awaits ends: it returns or raises.
SpecBotLive == SpecBot /\ WF_vars(SystemStep)

\* ------------------------------------------------------------------ claims

Ended == pc \in {"done", "raised"}

NamesUnique == \A i, j \in 1..Len(agents) : agents[i] = agents[j] => i = j

\* C1: for a non-empty paper and N >= 1 agents, whatever calls raise, the
\* fan-out executor returns a mapping with one entry per registered agent
\* name and never raises.
C1_FanoutTotal ==
    (~IsBlank(paper) /\ Len(agents) >= 1 /\ fanout \in {"returned", "raised"})
        => /\ fanout = "returned"
           /\ DOMAIN results = Range(agents)

\* C2: when one agent's call raises, no sibling call is cancelled or
\* abandoned: a sibling that finished without raising has its own entry in
\* the mapping the run ends with.
C2_FailureIsolation ==
    \A i, j \in 1..Len(task) :
        (i # j /\ Raised(task[i]))
            => /\ task[j] # "cancelled"
               /\ (Ended /\ task[j] \in {"ok", "errdict"})
                    => /\ agents[j] \in DOMAIN results
                       /\ results[agents[j]] = Entry(task[j])

\* C3: no call of run / process_paper ends with an exception propagated to
\* its caller.
C3_RunNeverRaises == pc # "raised"

\* C4: a run of process_paper on a valid input in which some agent failed
\* returns status "success".
C4_PartialFailureIsSuccess ==
    (impl = "core" /\ pc = "done" /\ ~IsBlank(paper)
        /\ \E i \in 1..Len(task) : Failed(task[i]))
        => status = "success"

\* C4 witness: process_paper returned after one agent raised and another
\* succeeded.
C4_Witness ==
    /\ impl = "core"
    /\ pc = "done"
    /\ ~IsBlank(paper)
    /\ \E i, j \in 1..Len(task) : Raised(task[i]) /\ task[j] = "ok"
    /\ status = "success"

\* C5: once the synthesis request has been sent, every registered agent
\* (names being unique keys) has finished its call of the fan-out and has
\* produced exactly one result.
C5_SynthesisAfterAllResults ==
    (synthCalls > 0 /\ NamesUnique)
        => \A i \in 1..Len(agents) :
              /\ task[i] \notin {"inflight", "unawaited"}
              /\ resultCount[i] = 1

\* C5 witness: synthesis is under way for two agents, one failed, one not.
C5_Witness ==
    /\ pc = "synth"
    /\ Len(agents) = 2
    /\ NamesUnique
    /\ \E i, j \in 1..2 : Failed(task[i]) /\ task[j] = "ok"

\* C6: a run on an empty or whitespace-only paper issues no network call and
\* ends by returning error status.
C6_BlankInputRejected ==
    (pc # "idle" /\ IsBlank(paper))
        => /\ netCalls = 0
           /\ pc # "raised"
           /\ pc = "done" => status = "error"

\* C7: when every entry of the mapping given to synthesis is an error, no
\* synthesis request is sent.
C7_NoSynthCallWhenAllFailed ==
    (DOMAIN synthInput # {} /\ \A n \in DOMAIN synthInput : synthInput[n] = "error")
        => synthCalls = 0

\* C8: when the synthesis request (made for at least one agent entry) fails,
\* the run returns a non-empty fallback review built from the agent results
\* and no exception reaches the caller.
C8_SynthFailureFallsBack ==
    (synthResult \in CallFailures /\ DOMAIN synthInput # {})
        => /\ pc = "done"
           /\ review # << >>
           /\ review = GenerateFallbackReview(synthInput)

\* C9: synthesis is never entered with a mapping of zero entries.
C9_SynthInputNonEmpty == synthCalls > 0 => DOMAIN synthInput # {}

\* C10: an agent call that timed out is recorded as an error entry of that
\* agent and the fan-out still returns its mapping.
C10_TimeoutRecorded ==
    \A i \in 1..Len(task) :
        (task[i] = "timeout" /\ fanout \in {"returned", "raised"})
            => /\ fanout = "returned"
               /\ agents[i] \in DOMAIN results
               /\ results[agents[i]] = "error"

\* C11: once the batch deadline has elapsed, a call that was still in flight at
\* that moment is cancelled, never waited for, and the mapping the fan-out
\* returns records it as an error (timeout) entry.
C11_BatchDeadlineCancels ==
    \A i \in pendingAtDeadline :
        /\ task[i] \in {"inflight", "cancelled"}
        /\ fanout = "returned"
              => /\ task[i] = "cancelled"
                 /\ agents[i] \in DOMAIN results
                 /\ results[agents[i]] = "error"

\* The JSON list forms of a check answer.
EmptyList == <<"[", "]">>

IsJsonList(c) == Len(c) >= 2 /\ c[1] = "[" /\ c[Len(c)] = "]"

\* C15: when the consistency check of a run with agents reports the empty list
\* `[]`, no refinement is run and the run has gone on to synthesis.
C15_EmptyListStopsLoop ==
    (Len(agents) >= 1 /\ clarifications = EmptyList)
        => /\ refineCalls = 0
           /\ synthCalls = 1
           /\ exc \notin {"AttributeError", "TypeError"}

\* C16: the consistency-check requests, the loop iterations and the
\* refinement rounds of one run each number at most max_iterations; with
\* max_iterations = 0 there is none.
C16_LoopBounded ==
    /\ checkCalls <= maxIter
    /\ iteration <= maxIter
    /\ refineCalls <= maxIter
    /\ maxIter = 0 => (checkCalls = 0 /\ refineCalls = 0)

\* C16 witness: a run with max_iterations = 1 has made its one check and its
\* one refinement call.
C16_Witness ==
    /\ HasLoop(impl)
    /\ maxIter = 1
    /\ checkCalls = 1
    /\ refineCalls = 1

\* C17: a check answer that is not a JSON list never crashes a run with
\* agents: no exception of the refinement step leaves run(), and synthesis is
\* entered.
C17_UnparseableCheckTolerated ==
    (Len(agents) >= 1 /\ clarifications # Unset /\ ~IsJsonList(clarifications))
        => /\ exc \notin {"AttributeError", "TypeError"}
           /\ synthCalls = 1

RefineEnded == rPc \in {"returned", "raised"}

\* C12: when refine_agents has returned or raised, every agent's prompt is
\* the one it had when refine_agents was entered.
C12_PromptsRestored == RefineEnded => rPrompt = old_prompts

\* C13: when IterativeOrchestrator.refine_agents, given a dict of
\* clarifications, has ended, the agents it re-ran are exactly the agents the
\* dict names, each with the note appended to its prompt; an agent not named
\* was not re-run and its prompt was not changed.
C13_ExactlyNamedRerun ==
    (rCls = "iterative" /\ clarification.kind = "dict" /\ RefineEnded)
        => \A i \in 1..Len(rAgents) :
              IF rAgents[i] \in DOMAIN clarification.val
              THEN rSent[i] = Append(old_prompts[i], clarification.val[rAgents[i]])
              ELSE rSent[i] = NotSent /\ rPrompt[i] = old_prompts[i]

\* The agent entries a prompt of run r holds when it lists, in registration
\* order, the outputs of r's own calls.
OwnPrompt(r) ==
    [i \in 1..Len(cAgents) |-> [name |-> cAgents[i], out |-> cTask[r][i]]]

ConcEnded(r) == cPc[r] \in {"done", "raised"}

\* C18: with two runs interleaved on one IterativeOrchestrator, the
\* consistency-check prompt and the synthesis prompt of each run hold exactly
\* the outputs of that run's own agent calls.
C18_RunsShareNoResults ==
    cImpl = "iterative"
        => \A r \in Runs :
              /\ cCheckPrompt[r] # Unbuilt => cCheckPrompt[r] = OwnPrompt(r)
              /\ cSynthPrompt[r] # Unbuilt => cSynthPrompt[r] = OwnPrompt(r)

IsMarker(p) == p \in {"<think>", "</think>"}

HasMarker(t) == \E i \in 1..Len(t) : IsMarker(t[i])

\* r is u without its leading and trailing blanks, nothing else changed.
IsTrimOf(r, u) ==
    \E i, j \in 0..Len(u) :
        /\ i <= j
        /\ r = SubSeq(u, i + 1, j)
        /\ \A k \in 1..i : u[k] = " "
        /\ \A k \in (j + 1)..Len(u) : u[k] = " "
        /\ r = << >> \/ (r[1] # " " /\ r[Len(r)] # " ")

\* t holds two reasoning-trace spans, one after the other.
TwoSpans(t) ==
    \E a, b, c, d \in 1..Len(t) :
        /\ a < b /\ b < c /\ c < d
        /\ t[a] = "<think>" /\ t[b] = "</think>"
        /\ t[c] = "<think>" /\ t[d] = "</think>"

\* What follows the last closing marker of t.
AfterLastClose(t) ==
    LET k == CHOOSE m \in 1..Len(t) :
                 /\ t[m] = "</think>"
                 /\ \A n \in (m + 1)..Len(t) : t[n] # "</think>"
    IN SubSeq(t, k + 1, Len(t))

\* C22: stripping is idempotent: stripping the stripped text gives the
\* stripped text again.
C22_StripIdempotent == stripPc = "twice" => restripped = stripped

\* C23: for a text with two reasoning-trace spans, the stripped text is what
\* follows the last closing marker (trimmed): text between the spans is not
\* part of it.
C23_KeepsAfterLastClose ==
    (stripPc # "input" /\ TwoSpans(inputText))
        => IsTrimOf(stripped, AfterLastClose(inputText))

\* C24: the stripped form of a text that holds a closing marker holds neither
\* an opening nor a closing marker.
C24_NoMarkerSurvives ==
    (stripPc # "input" /\ \E i \in 1..Len(inputText) : inputText[i] = "</think>")
        => ~HasMarker(stripped)

\* C25: for a text without a marker, the stripped text is the text without
\* its leading and trailing blanks and is otherwise unchanged.
C25_NoMarkerOnlyTrims ==
    (stripPc # "input" /\ ~HasMarker(inputText))
        => IsTrimOf(stripped, inputText)

\* C25 witness: a marker-free text with blanks before, inside and after has
\* been stripped.
C25_Witness ==
    /\ stripPc = "once"
    /\ ~HasMarker(inputText)
    /\ Len(inputText) = 5
    /\ inputText[1] = " "
    /\ inputText[5] = " "
    /\ stripped = <<"x", " ", "x">>

\* C21: the final review a run returns after its synthesis request was
\* answered is the completion with its reasoning traces stripped.
C21_ReviewIsStripped ==
    (pc = "done" /\ synthResult = "ok")
        => review = remove_think_blocks(completion)

\* C26: no agent call, consistency-check call or synthesis call has ended
\* (returned, failed, timed out or been cancelled) with its session open.
C26_SessionsClosed ==
    /\ \A i \in 1..Len(task) : task[i] # "inflight" => session[i] # "open"
    /\ pc # "check" => checkSession # "open"
    /\ pc # "synth" => synthSession # "open"

\* C26 witness: of the agent calls of a run, one failed and one was
\* cancelled when the loop shut down, and both sessions are closed.
C26_Witness ==
    \E i, j \in 1..Len(task) :
        /\ task[i] = "cancelled"
        /\ session[i] = "closed"
        /\ task[j] \in CallFailures
        /\ session[j] = "closed"

\* C27: a started call of BaseAgent.run has sent exactly one request, and
\* when the request failed the failure left the call as an exception.
C27_OneRequestNoRetry ==
    impl # "core"
        => \A i \in 1..Len(task) :
              task[i] # "unawaited"
                 => /\ requests[i] = 1
                    /\ task[i] \in CallFailures
                          => (Raised(task[i]) /\ raisedAs[i] # "none")

\* C27 witness: a call of BaseAgent.run has failed on its connection.
C27_Witness ==
    /\ impl = "simple"
    /\ \E i \in 1..Len(task) :
          /\ task[i] = "conn"
          /\ requests[i] = 1
          /\ raisedAs[i] = "ClientConnectorError"

\* C28: two agent calls that failed in different ways (connection, HTTP
\* status, response body) ended with different exception types.
C28_FailureKindsDistinct ==
    \A i, j \in 1..Len(task) :
        (task[i] \in {"conn", "http", "proto"}
            /\ task[j] \in {"conn", "http", "proto"}
            /\ task[i] # task[j])
           => raisedAs[i] # raisedAs[j]

\* C29: a run of process_paper or of IterativeOrchestrator.run with
\* max_iterations = 0 on a non-blank paper with two agents, one succeeding
\* and one timing out (in process_paper: raising the timeout out of its
\* analyze), whose synthesis request, if answered, was answered with text,
\* ends with status "success", a success entry for the first, an error entry
\* for the second and a non-empty review.
C29_DegradedRun ==
    \A i, j \in 1..Len(task) :
        (/\ Ended
         /\ impl \in {"core", "iterative"}
         /\ Len(agents) = 2
         /\ NamesUnique
         /\ maxIter = 0
         /\ ~IsBlank(paper)
         /\ task[i] = "ok"
         /\ task[j] = (IF impl = "core" THEN "raise" ELSE "timeout")
         /\ synthResult = "ok" => remove_think_blocks(completion) # << >>)
           => /\ status = "success"
              /\ DOMAIN results = Range(agents)
              /\ results[agents[i]] = "ok"
              /\ results[agents[j]] = "error"
              /\ review # << >>

\* A step in which register_agent(lastReg'.name, lastReg'.agent) acted.
Registered == registry' # registry \/ lastReg' # lastReg

\* C30: after register_agent(name, agent) the registry maps name to agent,
\* every other entry is the one it was, and no key was added but name (a name
\* registered before is replaced, not added again); the fan-out of a later
\* process_paper returns one result entry per registered name.
C30_RegisterThenFanOut ==
    [][/\ Registered
           => /\ lastReg'.name \in DOMAIN registry'
              /\ registry'[lastReg'.name] = lastReg'.agent
              /\ \A m \in DOMAIN registry \ {lastReg'.name} :
                    m \in DOMAIN registry' /\ registry'[m] = registry[m]
              /\ DOMAIN registry' = DOMAIN registry \cup {lastReg'.name}
              /\ Range(agents') = DOMAIN registry'
              /\ Len(agents') = Cardinality(DOMAIN registry')
       /\ (impl = "core" /\ fanout # "returned" /\ fanout' = "returned")
           => /\ DOMAIN results' = DOMAIN registry
              /\ Len(task) = Cardinality(DOMAIN registry)
              /\ \A i \in 1..Len(task) : resultCount[i] = 1]_vars

\* C30 witness: a name was registered, another after it, then the first
\* again with another agent, and the fan-out of a run has returned.
C30_Witness ==
    /\ impl = "core"
    /\ fanout = "returned"
    /\ Len(agents) = 2
    /\ lastReg.name = agents[1]
    /\ registry[agents[1]] = lastReg.agent
    /\ registry[agents[2]] # lastReg.agent
    /\ DOMAIN results = {agents[1], agents[2]}

\* C33: on one Orchestrator (non-iterative) with two runs interleaved, a run
\* that is suspended in its synthesis request has its prompt assembled, and
\* the prompt holds exactly the outputs of that run's own agent calls.
C33_SimpleRunReadsOwnResults ==
    cImpl = "simple"
        => \A r \in Runs :
              /\ cPc[r] \in {"synth", "done"} => cSynthPrompt[r] # Unbuilt
              /\ cSynthPrompt[r] # Unbuilt => cSynthPrompt[r] = OwnPrompt(r)

\* C33 witness: both runs of one Orchestrator are suspended in their
\* synthesis requests, and their agents answered differently.
C33_Witness ==
    /\ cImpl = "simple"
    /\ \A r \in Runs : cPc[r] = "synth"
    /\ cTask["r1"] # cTask["r2"]
    /\ cSynthPrompt["r1"] # cSynthPrompt["r2"]

\* C34: when run_agents of a run() orchestrator has returned, every agent of
\* the list, same-named ones included, had its call started and awaited, has
\* produced one response, and the mapping holds under its name the response
\* of its own call.
C34_EveryCallAwaited ==
    (impl # "core" /\ fanout = "returned")
        => \A i \in 1..Len(agents) :
              /\ task[i] # "unawaited"
              /\ resultCount[i] = 1
              /\ results[agents[i]] = Entry(task[i])

\* C39: for every text and every max_length >= 0 the result of
\* truncate_text is at most max_length long; a text that fits is returned
\* unchanged and a longer one is a prefix of it followed by "...".
C39_TruncateWithinLimit ==
    truncPc = "done"
        => /\ Len(truncated) <= max_length
           /\ Len(truncText) <= max_length => truncated = truncText
           /\ Len(truncText) > max_length
                 => \E k \in 0..Len(truncText) :
                       truncated = SubSeq(truncText, 1, k) \o Ellipsis

\* C32: a call of format_review never raises; for results whose
\* processing_status is "error" it returns the error message holding the
\* error detail; otherwise every agent entry that holds "error" is rendered
\* inline, unless formatting raised inside, and then the error message is
\* returned.
C32_FormatReviewTotal ==
    fmtPc = "done"
        => /\ ~formatted.raised
           /\ (fmtResults.isDict /\ fmtResults.status = "error")
                 => /\ formatted.kind = "errmsg"
                    /\ fmtResults.error # "none"
                          => formatted.detail = fmtResults.error
           /\ (fmtResults.isDict /\ fmtResults.status = "success")
                 => \/ formatted.kind = "errmsg"
                    \/ /\ formatted.kind = "review"
                       /\ \A n \in DOMAIN fmtResults.agent_results :
                             fmtResults.agent_results[n] = "error"
                                => n \in formatted.inline
           /\ ~fmtResults.isDict => formatted.kind = "errmsg"

\* A file with a .pdf suffix in any letter case, no larger than the maximum.
ValidFile(f) ==
    /\ Lower(Suffix(f.name)) = ".pdf"
    /\ f.size <= MaxFileSize

\* A step in which document k arrives at handle_document.
Arrives(k) == dpc[k] = "none" /\ dpc'[k] # "none"

\* C31: in bot/handlers.py a document reaches extraction and the orchestrator
\* only if its name has the .pdf suffix (any letter case) and its size is at
\* most MaxFileSize (10 MB), the maximum itself accepted; a document that
\* fails a check is rejected with the dialogue state and active_tasks
\* unchanged and nothing started.
C31_OnlyValidDocumentsProcessed ==
    [][\A k \in Docs :
          /\ (extracted'[k] \/ reviewed'[k]) => ValidFile(docFile'[k])
          /\ Arrives(k)
                => IF ValidFile(docFile'[k])
                   THEN dpc'[k] = "download" /\ active_tasks' = k
                   ELSE /\ dpc'[k] = "rejected"
                        /\ fsmState' = fsmState
                        /\ active_tasks' = active_tasks
                        /\ tmp' = tmp]_vars

\* C31 witness: a ".PDF" document of exactly the maximum size was extracted
\* and reviewed, and a document one byte larger was rejected.
C31_Witness ==
    /\ bot = "bot"
    /\ \E k \in Docs :
          /\ docFile[k] = [name |-> <<"a", ".PDF">>, size |-> MaxFileSize]
          /\ extracted[k]
          /\ reviewed[k]
    /\ \E j \in Docs :
          /\ docFile[j] # NoFile
          /\ docFile[j].size = MaxFileSize + 1
          /\ dpc[j] = "rejected"

\* The documents of the user whose task is running.
RunningTasks == {k \in Docs : dpc[k] \in TaskPositions}

\* A step in which the task of document k runs its cleanup and ends.
TaskCleansUp(k) == dpc[k] \in TaskPositions /\ dpc'[k] = "ended"

\* C35: in src/bot/handlers.py the user has at most one task running,
\* active_tasks holds only a running task, and the cleanup of a task leaves
\* alone the active_tasks entry and the dialogue state of a newer task.
C35_OneTaskPerUser ==
    [][bot = "srcbot"
          => /\ Cardinality(RunningTasks) <= 1
             /\ active_tasks # 0 => active_tasks \in RunningTasks
             /\ \A k \in Docs :
                   TaskCleansUp(k)
                      => /\ active_tasks > k => active_tasks' = active_tasks
                         /\ stateOwner > k
                               => /\ fsmState' = fsmState
                                  /\ stateOwner' = stateOwner]_vars

\* Document k was accepted and the dialogue is in the processing state for
\* it, or its task runs.
InProcessing(k) ==
    \/ dpc[k] \in TaskPositions \cup {"finally"}
    \/ fsmState = "processing" /\ stateOwner = k

\* C36: in bot/handlers.py and src/bot/handlers.py every document accepted
\* for processing eventually has its task ended, its entry out of
\* active_tasks and the dialogue state no longer processing for it.
C36_ProcessingEnds ==
    \A k \in Docs :
       (bot \in {"bot", "srcbot"} /\ InProcessing(k))
          ~> (~InProcessing(k) /\ active_tasks # k)

\* A step of the handler of document k.
HandlerSteps(k) == dpc'[k] # dpc[k]

\* C37: in bot_service_handlers.py, /cancel during the processing of a
\* document leaves the state waiting_for_document (cleared when the answer
\* of cancel_handler itself fails), and until the user sends another
\* document the handler of the cancelled document neither changes the
\* dialogue state nor publishes the document's result.
C37_CancelledHandlerIsSilent ==
    [][bot = "service"
          => \A k \in Docs :
                /\ (cancelSeen'[k] /\ ~cancelSeen[k])
                      => fsmState' \in {"waiting", "none"}
                /\ (cancelSeen[k] /\ HandlerSteps(k))
                      => /\ fsmState' = fsmState
                         /\ published'[k] = published[k]]_vars

\* The operation that handled document k is over.
OperationOver(k) == dpc[k] \in {"ended", "died", "rejected"}

\* C38: no operation that created a temporary file for an uploaded PDF ends
\* with the file still on disk, whichever way it ends.
C38_TempFilesDeleted ==
    \A k \in Docs : OperationOver(k) => tmp[k] # "ondisk"

====
